---------------------------- MODULE Spec2Model ----------------------------
(***************************************************************************)
(* Motion detector of camera_service: the detector loop of                 *)
(* detector/detector.py (motion_detection_process), its frame classifier   *)
(* (diff_ratio_between_two_frames), the event queue towards the supervisor *)
(* and the teardown of the frame reader thread; with them the frame reader *)
(* thread (capture/capture_to_frame.py), the supervisor (main.py) and the  *)
(* recorder of capture/capture.py, each in a specification of its own.     *)
(*                                                                         *)
(* Time is counted in ticks, TicksPerSec ticks to a second; a frame is     *)
(* received one tick to one second after the iteration before it, and a    *)
(* receive times out after one second.  One iteration of the loop is one   *)
(* step.  A Python None is the empty sequence <<>>, a value x that may be  *)
(* None is <<x>>.  A float is an exact fraction [num, den]; the bool       *)
(* False, which diff_ratio_between_two_frames returns on a shape mismatch, *)
(* is kept apart from 0.0 by its tag and compares as the number 0, as in   *)
(* Python.                                                                 *)
(***************************************************************************)
EXTENDS Integers, Sequences, FiniteSets, TLC

(* ------------------------------ bounds -------------------------------- *)

\* Ticks of the model clock in one second.
TicksPerSec == 2

\* The clock stops the run at this tick.
MaxTime == 5

\* Capacity of motion_event_queue in the model (the program's is 100,
\* detector.py:393 and main.py:45).
EventQueueMaxsize == 1

\* Height and width of the detection image in the model (the program's
\* DETECTION_RESIZE_DIM is 640 x 480, detector.py:18).
ImgH == 4

ImgW == 5

\* A frame of the loop differs from the reference in 0..MaxDiffPixels pixels.
MaxDiffPixels == 3

\* Largest height and width of the images the classifier is applied to in
\* SpecClassify.
MaxDim == 2

(* ------------------------- program constants -------------------------- *)

\* DIFF_RATIO_THREASHOLD = 0.05, as the fraction 5/100.
DIFF_RATIO_THREASHOLD == [py |-> "float", num |-> 5, den |-> 100]

\* cv2.threshold(frame_diff, 25, 255, cv2.THRESH_BINARY)
THRESH_CUTOFF == 25

THRESH_MAXVAL == 255

\* if current_time - last_dump_statistics_time > 60
STATISTICS_INTERVAL_SECONDS == 60

\* RECONNECT_DELAY_SECONDS = 10 (capture_to_frame.py)
RECONNECT_DELAY_SECONDS == 10

\* max_consecutive_read_errors = 5 (capture_to_frame.py)
max_consecutive_read_errors == 5

\* DETECTION_FPS = 5, the sample rate the detector starts the reader with.
DETECTION_FPS == 5

None == <<>>

Some(x) == <<x>>

(* --------------------------- Python numbers --------------------------- *)

PyFloat(n, d) == [py |-> "float", num |-> n, den |-> d]

\* The bool False: int(False) = 0.
PyFalse == [py |-> "bool", num |-> 0, den |-> 1]

\* a > b on Python numbers (a bool compares as 0 or 1).
PyGt(a, b) == a.num * b.den > b.num * a.den

PyEq(a, b) == a.num * b.den = b.num * a.den

(* ------------------------------ images -------------------------------- *)

Abs(x) == IF x < 0 THEN 0 - x ELSE x

\* numpy's ndarray.size of a 2-D image.
Size(img) == img.shape[1] * img.shape[2]

\* cv2.absdiff
AbsDiff(a, b) == [i \in 1..Len(a) |-> Abs(a[i] - b[i])]

\* Mutant of ThresholdBinary: ">=" for ">", a difference equal to the cutoff counts.
ThresholdBinaryInclusive(src, thresh, maxval) == [i \in 1..Len(src) |-> IF src[i] >= thresh THEN maxval ELSE 0]

\* cv2.threshold(src, thresh, maxval, THRESH_BINARY): maxval where src > thresh, else 0.
ThresholdBinary(src, thresh, maxval) == [i \in 1..Len(src) |-> IF src[i] > thresh THEN maxval ELSE 0]

\* cv2.countNonZero
CountNonZero(src) == Cardinality({i \in 1..Len(src) : src[i] # 0})

\* diff_ratio_between_two_frames: False on a shape mismatch, else the share of
\* the pixels whose absolute difference exceeds the cutoff.
diff_ratio_between_two_frames(base_gray, current_gray) ==
  IF base_gray.shape # current_gray.shape
  THEN PyFalse
  ELSE LET frame_diff == AbsDiff(base_gray.px, current_gray.px)
           thresh == ThresholdBinary(frame_diff, THRESH_CUTOFF, THRESH_MAXVAL)
           non_zero_count == CountNonZero(thresh)
           total_pixels == Size(base_gray)
       IN  PyFloat(non_zero_count, total_pixels)

\* Whether diff_ratio_between_two_frames logs its shape warning.
ShapeWarning(base_gray, current_gray) == base_gray.shape # current_gray.shape

\* Lines 243-246: is_like_base_frame = not (diff_ratio > DIFF_RATIO_THREASHOLD).
IsLikeBaseFrame(ratio) == ~PyGt(ratio, DIFF_RATIO_THREASHOLD)


(* --------------------------- frames of the loop ----------------------- *)

\* Gray level of the reference image, and the two levels of a loop frame: one
\* exactly THRESH_CUTOFF away from the reference, one a level further.
GrayLevels == <<100, 125, 126>>

\* Shape of every image after cv2.resize(..., DETECTION_RESIZE_DIM); numpy
\* shapes are (height, width).
DetectionShape == <<ImgH, ImgW>>

\* load_base_frame_img: the reference, resized to the detection shape, gray.
LoopBase == [shape |-> DetectionShape, px |-> [i \in 1..(ImgH * ImgW) |-> GrayLevels[1]]]

\* The gray, resized image of a frame k of whose pixels exceed the cutoff.
LoopPixels(k) == [i \in 1..(ImgH * ImgW) |-> IF i <= k THEN GrayLevels[3] ELSE GrayLevels[2]]

(* ------------------------------- state -------------------------------- *)

VARIABLES
  pc,                       \* detector: "loop", "cleanup", "join", "finish", "exited"
  stop_event,               \* multiprocessing.Event shared with the supervisor
  reader_thread_stop_event, \* threading.Event of the frame reader thread
  reader_alive,             \* reader_thread.is_alive()
  exit_status,              \* None, or Some(status of sys.exit)
  base_gray_frame,
  gray_frame,
  diff_ratio,
  is_like_base_frame,
  state,
  motion_start_time,
  motion_end_time,
  max_diff_ratio,
  snapshot_frame,
  last_dump_statistics_time,
  statistics,
  motion_event_queue,
  snapshots,                \* the snapshot directory: file name -> frame written
  log,                      \* the kinds of log line written so far
  now,                      \* the clock, in ticks
  teardown,                 \* the teardown operations performed, in order
  exit_cause,               \* why the loop was left: "none", "stop_event", "keyboard_interrupt", "exception", "handler_exception"
  last_get,                 \* what the last frame_queue.get did: "none", "frame", "empty"
  last_put,                 \* the event the last iteration handed to put, or None
  ep_frames,                \* the frames classified different in the open episode, each with its diff ratio
  rpc,                      \* frame reader thread: its position in frame_reader_thread_func
  cap_reader,               \* "None", "opened", or "unopened" (a VideoCapture whose isOpened() is False)
  consecutive_read_errors,
  sleep_time,               \* None, or Some(timeout in seconds of the stop_event_reader.wait in progress)
  last_frame_time,
  reader_frame,             \* the reader's local "frame": None, or Some(number of the frame in capture order)
  frame_queue,              \* queue.Queue(maxsize=1) between reader and detector
  captured,                 \* the number of frames cap_reader.read() has returned
  delivered,                \* None, or Some(the frame of the last frame_queue.put that returned)
  taken,                    \* the frames the detector's frame_queue.get returned, in order
  open_handles,             \* the stream handles held open by this process
  since_stop,               \* what the reader did since its stop signal was set: opens, reads, puts
  sample_rate,              \* the reader's parameter sample_rate
  failed_reads,             \* the reads that returned ret = False since the last read that returned a frame
  delivered_at,             \* None, or Some(the time at which the frame of the last frame_queue.put that returned was read)
  main_pc,                  \* supervisor (main.py): "loop", "sleep", "finally", "join", "is_alive", "returned", "raised"
  main_cause,               \* why the supervisor left its loop: "none", "not_alive", "keyboard_interrupt", "exception"
  notified,                 \* the calls of send_html_mail so far: the event and how the call ended
  rec_pc,                   \* recorder (capture.py): its position in recording_and_segment_func
  recorder_process,         \* None, or Some(the number of the ffmpeg child the Popen object stands for)
  subprocess_log_threads,   \* "None", or "running": the pair of threads that log the child's output
  ffmpeg,                   \* the ffmpeg children started so far, each "running", "sigterm", "exited", "terminated" or "killed"
  rec_waited,               \* None, or Some(timeout in seconds of the last stop_event.wait that ran out)
  rec_log                   \* the kinds of log line the recorder has written

vars == <<pc, stop_event, reader_thread_stop_event, reader_alive, exit_status, base_gray_frame, gray_frame, diff_ratio, is_like_base_frame, state, motion_start_time, motion_end_time, max_diff_ratio, snapshot_frame, last_dump_statistics_time, statistics, motion_event_queue, snapshots, log, now, teardown, exit_cause, last_get, last_put, ep_frames, rpc, cap_reader, consecutive_read_errors, failed_reads, sleep_time, last_frame_time, sample_rate, reader_frame, frame_queue, captured, delivered, delivered_at, taken, open_handles, since_stop, main_pc, main_cause, notified, rec_pc, recorder_process, subprocess_log_threads, ffmpeg, rec_waited, rec_log>>

\* The variables of the supervisor.
main_vars == <<main_pc, main_cause, notified>>

\* The variables of the recorder.
recorder_vars == <<rec_pc, recorder_process, subprocess_log_threads, ffmpeg, rec_waited, rec_log>>

\* The variables of the frame reader thread and of its handoff to the detector.
reader_vars == <<rpc, cap_reader, consecutive_read_errors, failed_reads, sleep_time, last_frame_time, sample_rate, reader_frame, frame_queue, captured, delivered, delivered_at, taken, open_handles, since_stop>>

\* The variables of the episode state machine and its outputs.
episode_vars == <<state, motion_start_time, motion_end_time, max_diff_ratio, snapshot_frame, motion_event_queue, snapshots, last_put, ep_frames>>

\* The variables of the process and its teardown.
process_vars == <<pc, stop_event, reader_thread_stop_event, reader_alive, exit_status, teardown, exit_cause>>

\* The variables of the classifier.
classify_vars == <<base_gray_frame, gray_frame, diff_ratio, is_like_base_frame>>

DetectStatistics == [cap_connect_count |-> 0, total_frames |-> 0, check_frames |-> 0, ignored_frames |-> 0, motion_frames |-> 0, static_frames |-> 0, motion_event_count |-> 0]

\* The reader thread started with a sample rate, and its handoff, before the
\* thread's first statement (capture_to_frame.py lines 31-39).
ReaderStartedWith(rate) ==
  /\ sample_rate = rate
  /\ failed_reads = 0
  /\ delivered_at = None
  /\ rpc = "while"
  /\ cap_reader = "None"
  /\ consecutive_read_errors = 0
  /\ sleep_time = None
  /\ last_frame_time = None
  /\ reader_frame = None
  /\ frame_queue = <<>>
  /\ captured = 0
  /\ delivered = None
  /\ taken = <<>>
  /\ open_handles = 0
  /\ since_stop = [opens |-> 0, reads |-> 0, puts |-> 0]

\* The reader thread as the detector starts it (detector.py lines 203-211), in
\* the values it has before its first statement.
ReaderNotStarted == ReaderStartedWith(DETECTION_FPS)

\* main() of main.py up to the start of its loop (lines 13-61).
MainStarted ==
  /\ main_pc = "loop"
  /\ main_cause = "none"
  /\ notified = <<>>

\* recording_and_segment_func of capture.py up to its try (lines 26-31).
RecorderStarted ==
  /\ rec_pc = "while"
  /\ recorder_process = None
  /\ subprocess_log_threads = "None"
  /\ ffmpeg = <<>>
  /\ rec_waited = None
  /\ rec_log = {}

\* motion_detection_process up to the start of its loop (lines 173-215).
DetectorStarted ==
  /\ pc = "loop"
  /\ stop_event = FALSE
  /\ reader_thread_stop_event = FALSE
  /\ reader_alive = TRUE
  /\ exit_status = None
  /\ base_gray_frame = LoopBase
  /\ gray_frame = None
  /\ diff_ratio = None
  /\ is_like_base_frame = FALSE
  /\ state = "STATIC"
  /\ motion_start_time = None
  /\ motion_end_time = None
  /\ max_diff_ratio = PyFloat(0, 1)
  /\ snapshot_frame = None
  /\ last_dump_statistics_time = None
  /\ statistics = DetectStatistics
  /\ motion_event_queue = <<>>
  /\ snapshots = <<>>
  /\ log = {}
  /\ now = 0
  /\ teardown = <<>>
  /\ exit_cause = "none"
  /\ last_get = "none"
  /\ last_put = None
  /\ ep_frames = <<>>

\* The supervisor has started the detector process, and the detector its
\* reader thread.
Init ==
  /\ DetectorStarted
  /\ ReaderNotStarted
  /\ MainStarted
  /\ RecorderStarted

(* ----------------------- pieces of one iteration ---------------------- *)

\* strftime("%Y-%m-%d %H:%M:%S") and strftime('%Y%m%d_%H%M%S'): the time to the second.
StrfTime(t) == t \div TicksPerSec

\* snapshot_img_name = ''
EmptyName == <<>>

\* f"motion_{motion_start_time.strftime('%Y%m%d_%H%M%S')}.jpg"
SnapshotImgName(start) == <<"motion_", StrfTime(start), ".jpg">>

\* Mutant of MotionEvent: the receive-timeout copy of the close keeps the kind
\* of the like-base copy.
MotionEventKindLost(event_type, start, end, snapshot_img) == [event_type |-> "MOTION", start_timestamp |-> start, end_timestamp |-> end, snapshot_img |-> snapshot_img]

\* Mutant of MotionEvent: the two timestamps are passed in each other's place.
MotionEventSwapped(event_type, start, end, snapshot_img) == [event_type |-> event_type, start_timestamp |-> end, end_timestamp |-> start, snapshot_img |-> snapshot_img]

\* Mutant of MotionEvent: the end is rounded up to the next second.
MotionEventEndsLate(event_type, start, end, snapshot_img) == [event_type |-> event_type, start_timestamp |-> start, end_timestamp |-> end + 1, snapshot_img |-> snapshot_img]

\* class MotionEvent(NamedTuple)
MotionEvent(event_type, start, end, snapshot_img) == [event_type |-> event_type, start_timestamp |-> start, end_timestamp |-> end, snapshot_img |-> snapshot_img]

\* cv2.imwrite(path, frame): writes the file, or returns False and writes nothing.
ImWrite(store, name, frame, ok) == IF ok THEN (name :> frame) @@ store ELSE store

\* Mutant of QueuePut: the event is put a second time.
QueuePutTwice(queue, event) == IF Len(queue) < EventQueueMaxsize THEN [queue |-> Append(Append(queue, event), event), full |-> FALSE] ELSE [queue |-> queue, full |-> TRUE]

\* Mutant of QueuePut: a full queue evicts its oldest event for the new one.
QueuePutEvictOldest(queue, event) == IF Len(queue) < EventQueueMaxsize THEN [queue |-> Append(queue, event), full |-> FALSE] ELSE [queue |-> Append(Tail(queue), event), full |-> FALSE]

\* motion_event_queue.put(event, timeout=0.5): appends, or raises Full when the
\* queue is still at its capacity.
QueuePut(queue, event) == IF Len(queue) < EventQueueMaxsize THEN [queue |-> Append(queue, event), full |-> FALSE] ELSE [queue |-> queue, full |-> TRUE]

\* Lines 224-232: the counters and the periodic dump after a frame was received.
StatisticsDue(current_time) == last_dump_statistics_time # None /\ current_time - last_dump_statistics_time[1] > STATISTICS_INTERVAL_SECONDS * TicksPerSec

\* Mutant of BetterThanBest: ">=" for ">", a later frame wins a tie.
BetterOrEqualBest(ratio, best) == ~PyGt(best, ratio)

\* Line 282: whether the frame replaces the best frame of the episode.
BetterThanBest(ratio, best) == PyGt(ratio, best)

\* Mutant of CaughtByExceptFull: the clause names queue.Empty.
CaughtByExceptEmpty(exc) == exc = "Empty"

\* "except multiprocessing.queues.Full" (lines 277 and 326): whether the clause
\* catches the exception the put raised.
CaughtByExceptFull(exc) == exc = "Full"

\* Mutant of CloseEpisode: the best frame and score are cleared only when the
\* event was put.
CloseEpisodeKeepsOnFull(event_type, end_time, write_ok) ==
  LET has_snapshot == snapshot_frame # None
      snapshot_img_name == IF has_snapshot THEN SnapshotImgName(motion_start_time[1]) ELSE EmptyName
      written == IF has_snapshot THEN ImWrite(snapshots, snapshot_img_name, snapshot_frame[1], write_ok) ELSE snapshots
      has_start == motion_start_time # None
      event == MotionEvent(event_type, StrfTime(motion_start_time[1]), StrfTime(end_time), snapshot_img_name)
      put == IF has_start THEN QueuePut(motion_event_queue, event) ELSE [queue |-> motion_event_queue, full |-> FALSE]
      raised == IF put.full /\ ~CaughtByExceptFull("Full") THEN "Full" ELSE "none"
      reset == has_start /\ raised = "none"
  IN  [state |-> "STATIC",
       motion_end_time |-> IF reset THEN None ELSE Some(end_time),
       motion_start_time |-> IF reset THEN None ELSE motion_start_time,
       snapshot_frame |-> IF has_snapshot /\ ~put.full THEN None ELSE snapshot_frame,
       max_diff_ratio |-> IF has_snapshot /\ ~put.full THEN PyFloat(0, 1) ELSE max_diff_ratio,
       snapshots |-> written,
       motion_event_queue |-> put.queue,
       counted |-> IF has_start /\ ~put.full THEN 1 ELSE 0,
       last_put |-> IF has_start THEN Some(event) ELSE None,
       raised |-> raised]

\* Mutant of CloseEpisode: the best score outlives the episode.
CloseEpisodeKeepsScore(event_type, end_time, write_ok) ==
  LET has_snapshot == snapshot_frame # None
      snapshot_img_name == IF has_snapshot THEN SnapshotImgName(motion_start_time[1]) ELSE EmptyName
      written == IF has_snapshot THEN ImWrite(snapshots, snapshot_img_name, snapshot_frame[1], write_ok) ELSE snapshots
      has_start == motion_start_time # None
      event == MotionEvent(event_type, StrfTime(motion_start_time[1]), StrfTime(end_time), snapshot_img_name)
      put == IF has_start THEN QueuePut(motion_event_queue, event) ELSE [queue |-> motion_event_queue, full |-> FALSE]
      raised == IF put.full /\ ~CaughtByExceptFull("Full") THEN "Full" ELSE "none"
      reset == has_start /\ raised = "none"
  IN  [state |-> "STATIC",
       motion_end_time |-> IF reset THEN None ELSE Some(end_time),
       motion_start_time |-> IF reset THEN None ELSE motion_start_time,
       snapshot_frame |-> IF has_snapshot THEN None ELSE snapshot_frame,
       max_diff_ratio |-> max_diff_ratio,
       snapshots |-> written,
       motion_event_queue |-> put.queue,
       counted |-> IF has_start /\ ~put.full THEN 1 ELSE 0,
       last_put |-> IF has_start THEN Some(event) ELSE None,
       raised |-> raised]

\* Mutant of CloseEpisode: a dropped event is counted as well.
CloseEpisodeCountsDropped(event_type, end_time, write_ok) ==
  LET has_snapshot == snapshot_frame # None
      snapshot_img_name == IF has_snapshot THEN SnapshotImgName(motion_start_time[1]) ELSE EmptyName
      written == IF has_snapshot THEN ImWrite(snapshots, snapshot_img_name, snapshot_frame[1], write_ok) ELSE snapshots
      has_start == motion_start_time # None
      event == MotionEvent(event_type, StrfTime(motion_start_time[1]), StrfTime(end_time), snapshot_img_name)
      put == IF has_start THEN QueuePut(motion_event_queue, event) ELSE [queue |-> motion_event_queue, full |-> FALSE]
      raised == IF put.full /\ ~CaughtByExceptFull("Full") THEN "Full" ELSE "none"
      reset == has_start /\ raised = "none"
  IN  [state |-> "STATIC",
       motion_end_time |-> IF reset THEN None ELSE Some(end_time),
       motion_start_time |-> IF reset THEN None ELSE motion_start_time,
       snapshot_frame |-> IF has_snapshot THEN None ELSE snapshot_frame,
       max_diff_ratio |-> IF has_snapshot THEN PyFloat(0, 1) ELSE max_diff_ratio,
       snapshots |-> written,
       motion_event_queue |-> put.queue,
       counted |-> IF has_start THEN 1 ELSE 0,
       last_put |-> IF has_start THEN Some(event) ELSE None,
       raised |-> raised]

\* Lines 255-280 (frame like the reference) and 305-329 (receive timeout): the
\* close of the open episode, as the new values of the episode variables;
\* raised is the exception that leaves the block, or "none".
CloseEpisode(event_type, end_time, write_ok) ==
  LET has_snapshot == snapshot_frame # None
      snapshot_img_name == IF has_snapshot THEN SnapshotImgName(motion_start_time[1]) ELSE EmptyName
      written == IF has_snapshot THEN ImWrite(snapshots, snapshot_img_name, snapshot_frame[1], write_ok) ELSE snapshots
      has_start == motion_start_time # None
      event == MotionEvent(event_type, StrfTime(motion_start_time[1]), StrfTime(end_time), snapshot_img_name)
      put == IF has_start THEN QueuePut(motion_event_queue, event) ELSE [queue |-> motion_event_queue, full |-> FALSE]
      raised == IF put.full /\ ~CaughtByExceptFull("Full") THEN "Full" ELSE "none"
      reset == has_start /\ raised = "none"
  IN  [state |-> "STATIC",
       motion_end_time |-> IF reset THEN None ELSE Some(end_time),
       motion_start_time |-> IF reset THEN None ELSE motion_start_time,
       snapshot_frame |-> IF has_snapshot THEN None ELSE snapshot_frame,
       max_diff_ratio |-> IF has_snapshot THEN PyFloat(0, 1) ELSE max_diff_ratio,
       snapshots |-> written,
       motion_event_queue |-> put.queue,
       counted |-> IF has_start /\ ~put.full THEN 1 ELSE 0,
       last_put |-> IF has_start THEN Some(event) ELSE None,
       raised |-> raised]

\* Mutant of DifferentFrame: the snapshot is replaced by every different frame.
DifferentFrameKeepsLast(frame, ratio, current_time) ==
  LET better == BetterThanBest(ratio, max_diff_ratio)
  IN  [state |-> "MOTION",
       motion_start_time |-> IF state = "STATIC" THEN Some(current_time) ELSE motion_start_time,
       max_diff_ratio |-> IF better THEN ratio ELSE max_diff_ratio,
       snapshot_frame |-> Some(frame)]

\* Mutant of DifferentFrame: every different frame starts the episode anew.
DifferentFrameRestarts(frame, ratio, current_time) ==
  LET better == BetterThanBest(ratio, max_diff_ratio)
  IN  [state |-> "MOTION",
       motion_start_time |-> Some(current_time),
       max_diff_ratio |-> IF better THEN ratio ELSE max_diff_ratio,
       snapshot_frame |-> IF better THEN Some(frame) ELSE snapshot_frame]

\* Lines 282-294: a frame that differs from the reference, as the new values of
\* the episode variables.
DifferentFrame(frame, ratio, current_time) ==
  LET better == BetterThanBest(ratio, max_diff_ratio)
  IN  [state |-> "MOTION",
       motion_start_time |-> IF state = "STATIC" THEN Some(current_time) ELSE motion_start_time,
       max_diff_ratio |-> IF better THEN ratio ELSE max_diff_ratio,
       snapshot_frame |-> IF better THEN Some(frame) ELSE snapshot_frame]

(* ------------------------ the detector's loop ------------------------- *)

\* One iteration in which frame_queue.get returns a frame (lines 218-294):
\* dt ticks pass in the get, k pixels of the frame exceed the cutoff, and
\* write_ok is what cv2.imwrite returns if the iteration writes a snapshot.
\* An exception that leaves the close of the episode is caught by
\* "except Exception" (lines 335-339).
ProcessFrame(k, dt, write_ok) ==
  /\ pc = "loop"
  /\ ~stop_event
  /\ now + dt <= MaxTime
  /\ LET current_time == now + dt
         frame == [id |-> current_time, shape |-> DetectionShape, px |-> LoopPixels(k)]
         gray == [shape |-> frame.shape, px |-> frame.px]
         ratio == diff_ratio_between_two_frames(base_gray_frame, gray)
         like == IsLikeBaseFrame(ratio)
         due == StatisticsDue(current_time)
         c == CloseEpisode("MOTION", current_time, write_ok)
         d == DifferentFrame(frame, ratio, current_time)
         fatal == like /\ state = "MOTION" /\ c.raised # "none"
     IN  /\ now' = current_time
         /\ last_get' = "frame"
         /\ last_dump_statistics_time' = IF last_dump_statistics_time = None \/ due THEN Some(current_time) ELSE last_dump_statistics_time
         /\ log' = log \cup (IF due THEN {"statistics"} ELSE {}) \cup (IF ShapeWarning(base_gray_frame, gray) THEN {"shape_warning"} ELSE {}) \cup (IF fatal THEN {"fatal_error"} ELSE {})
         /\ gray_frame' = Some(gray)
         /\ diff_ratio' = Some(ratio)
         /\ is_like_base_frame' = like
         /\ pc' = IF fatal THEN "cleanup" ELSE "loop"
         /\ stop_event' = (stop_event \/ fatal)
         /\ exit_cause' = IF fatal THEN "exception" ELSE exit_cause
         /\ IF like
            THEN IF state = "STATIC"
                 THEN /\ statistics' = [statistics EXCEPT !.total_frames = @ + 1, !.check_frames = @ + 1, !.static_frames = @ + 1]
                      /\ last_put' = None
                      /\ UNCHANGED <<state, motion_start_time, motion_end_time, max_diff_ratio, snapshot_frame, motion_event_queue, snapshots, ep_frames>>
                 ELSE /\ statistics' = [statistics EXCEPT !.total_frames = @ + 1, !.check_frames = @ + 1, !.static_frames = @ + 1, !.motion_event_count = @ + c.counted]
                      /\ state' = c.state
                      /\ motion_start_time' = c.motion_start_time
                      /\ motion_end_time' = c.motion_end_time
                      /\ max_diff_ratio' = c.max_diff_ratio
                      /\ snapshot_frame' = c.snapshot_frame
                      /\ motion_event_queue' = c.motion_event_queue
                      /\ snapshots' = c.snapshots
                      /\ last_put' = c.last_put
                      /\ ep_frames' = <<>>
            ELSE /\ statistics' = [statistics EXCEPT !.total_frames = @ + 1, !.check_frames = @ + 1, !.motion_frames = @ + 1]
                 /\ state' = d.state
                 /\ motion_start_time' = d.motion_start_time
                 /\ max_diff_ratio' = d.max_diff_ratio
                 /\ snapshot_frame' = d.snapshot_frame
                 /\ last_put' = None
                 /\ ep_frames' = Append(ep_frames, [frame |-> frame, ratio |-> ratio])
                 /\ UNCHANGED <<motion_end_time, motion_event_queue, snapshots>>
  /\ UNCHANGED <<reader_thread_stop_event, reader_alive, exit_status, teardown, base_gray_frame, reader_vars, main_vars, recorder_vars>>

\* One iteration in which frame_queue.get raises queue.Empty after its 1 s
\* timeout (lines 296-330).  An exception that leaves the close of the episode
\* is raised inside the except clause and leaves the loop through "finally".
ReceiveTimeout(write_ok) ==
  /\ pc = "loop"
  /\ ~stop_event
  /\ now + TicksPerSec <= MaxTime
  /\ now' = now + TicksPerSec
  /\ last_get' = "empty"
  /\ IF state = "STATIC"
     THEN /\ last_put' = None
          /\ UNCHANGED <<pc, exit_cause, state, motion_start_time, motion_end_time, max_diff_ratio, snapshot_frame, motion_event_queue, snapshots, ep_frames, statistics>>
     ELSE LET c == CloseEpisode("NO_FRAME", now + TicksPerSec, write_ok)
          IN  /\ statistics' = [statistics EXCEPT !.motion_event_count = @ + c.counted]
              /\ pc' = IF c.raised # "none" THEN "cleanup" ELSE "loop"
              /\ exit_cause' = IF c.raised # "none" THEN "handler_exception" ELSE exit_cause
              /\ state' = c.state
              /\ motion_start_time' = c.motion_start_time
              /\ motion_end_time' = c.motion_end_time
              /\ max_diff_ratio' = c.max_diff_ratio
              /\ snapshot_frame' = c.snapshot_frame
              /\ motion_event_queue' = c.motion_event_queue
              /\ snapshots' = c.snapshots
              /\ last_put' = c.last_put
              /\ ep_frames' = <<>>
  /\ UNCHANGED <<stop_event, reader_thread_stop_event, reader_alive, exit_status, teardown, classify_vars, last_dump_statistics_time, log, reader_vars, main_vars, recorder_vars>>

\* An iteration whose frame makes cv2.resize or cv2.cvtColor raise (lines
\* 220-239), caught by "except Exception" (lines 335-339).
FrameHandlingRaises(dt) ==
  /\ pc = "loop"
  /\ ~stop_event
  /\ now + dt <= MaxTime
  /\ now' = now + dt
  /\ last_get' = "frame"
  /\ last_put' = None
  /\ statistics' = [statistics EXCEPT !.total_frames = @ + 1, !.check_frames = @ + 1]
  /\ last_dump_statistics_time' = IF last_dump_statistics_time = None \/ StatisticsDue(now + dt) THEN Some(now + dt) ELSE last_dump_statistics_time
  /\ log' = log \cup (IF StatisticsDue(now + dt) THEN {"statistics"} ELSE {}) \cup {"fatal_error"}
  /\ stop_event' = TRUE
  /\ exit_cause' = "exception"
  /\ pc' = "cleanup"
  /\ UNCHANGED <<reader_thread_stop_event, reader_alive, exit_status, teardown, classify_vars, state, motion_start_time, motion_end_time, max_diff_ratio, snapshot_frame, motion_event_queue, snapshots, ep_frames, reader_vars, main_vars, recorder_vars>>

\* KeyboardInterrupt raised in the try body, caught at lines 331-334.
KeyboardInterrupt ==
  /\ pc = "loop"
  /\ ~stop_event
  /\ log' = log \cup {"keyboard_interrupt"}
  /\ stop_event' = TRUE
  /\ exit_cause' = "keyboard_interrupt"
  /\ pc' = "cleanup"
  /\ UNCHANGED <<reader_thread_stop_event, reader_alive, exit_status, teardown, classify_vars, episode_vars, last_dump_statistics_time, statistics, now, last_get, reader_vars, main_vars, recorder_vars>>

\* An exception raised inside the "except queue.Empty" handler (lines 296-330),
\* such as a KeyboardInterrupt delivered there or an error of the logger: no
\* sibling except clause catches it, it leaves the loop through "finally".
TimeoutHandlerRaises ==
  /\ pc = "loop"
  /\ ~stop_event
  /\ now + TicksPerSec <= MaxTime
  /\ now' = now + TicksPerSec
  /\ last_get' = "empty"
  /\ last_put' = None
  /\ exit_cause' = "handler_exception"
  /\ pc' = "cleanup"
  /\ UNCHANGED <<stop_event, reader_thread_stop_event, reader_alive, exit_status, teardown, classify_vars, state, motion_start_time, motion_end_time, max_diff_ratio, snapshot_frame, motion_event_queue, snapshots, ep_frames, last_dump_statistics_time, statistics, log, reader_vars, main_vars, recorder_vars>>

\* Mutant of LoopExit: the loop, on its way out, puts an event for the episode
\* still open.
LoopExitFlushes ==
  /\ pc = "loop"
  /\ stop_event
  /\ exit_cause' = "stop_event"
  /\ pc' = "cleanup"
  /\ motion_event_queue' = IF state = "MOTION" THEN QueuePut(motion_event_queue, MotionEvent("MOTION", StrfTime(motion_start_time[1]), StrfTime(now), EmptyName)).queue ELSE motion_event_queue
  /\ UNCHANGED <<stop_event, reader_thread_stop_event, reader_alive, exit_status, teardown, classify_vars, state, motion_start_time, motion_end_time, max_diff_ratio, snapshot_frame, snapshots, last_put, ep_frames, last_dump_statistics_time, statistics, log, now, last_get, reader_vars, main_vars, recorder_vars>>

\* "while not stop_event.is_set()" finds the event set (line 218).
LoopExit ==
  /\ pc = "loop"
  /\ stop_event
  /\ exit_cause' = "stop_event"
  /\ pc' = "cleanup"
  /\ UNCHANGED <<stop_event, reader_thread_stop_event, reader_alive, exit_status, teardown, classify_vars, episode_vars, last_dump_statistics_time, statistics, log, now, last_get, reader_vars, main_vars, recorder_vars>>

(* ------------------------------ teardown ------------------------------ *)

\* Mutant of CleanupSignalReader: the reader's stop signal is not set.
CleanupSkipsSignal ==
  /\ pc = "cleanup"
  /\ teardown' = Append(teardown, "set_reader_stop")
  /\ pc' = "join"
  /\ UNCHANGED <<stop_event, reader_thread_stop_event, reader_alive, exit_status, exit_cause, classify_vars, episode_vars, last_dump_statistics_time, statistics, log, now, last_get, reader_vars, main_vars, recorder_vars>>

\* finally: reader_thread_stop_event.set() (lines 343-346).
CleanupSignalReader ==
  /\ pc = "cleanup"
  /\ reader_thread_stop_event' = TRUE
  /\ teardown' = Append(teardown, "set_reader_stop")
  /\ pc' = "join"
  /\ UNCHANGED <<stop_event, reader_alive, exit_status, exit_cause, classify_vars, episode_vars, last_dump_statistics_time, statistics, log, now, last_get, reader_vars, main_vars, recorder_vars>>

\* The reader thread sees its stop signal and returns (capture_to_frame.py,
\* frame_reader_thread_func).
ReaderThreadExits ==
  /\ reader_alive
  /\ reader_thread_stop_event
  /\ reader_alive' = FALSE
  /\ UNCHANGED <<pc, stop_event, reader_thread_stop_event, exit_status, teardown, exit_cause, classify_vars, episode_vars, last_dump_statistics_time, statistics, log, now, last_get, reader_vars, main_vars, recorder_vars>>

\* Mutant of CleanupJoin: join() without a timeout returns only once the reader
\* thread has returned.
CleanupJoinNoTimeout(in_time) ==
  /\ pc = "join"
  /\ ~reader_alive
  /\ in_time
  /\ teardown' = Append(teardown, "already_stopped")
  /\ pc' = "finish"
  /\ UNCHANGED <<stop_event, reader_thread_stop_event, reader_alive, log, exit_status, exit_cause, classify_vars, episode_vars, last_dump_statistics_time, statistics, now, last_get, reader_vars, main_vars, recorder_vars>>

\* if reader_thread.is_alive(): join(timeout=5.0) (lines 347-352); in_time is
\* whether the reader returns before the join times out.
CleanupJoin(in_time) ==
  /\ pc = "join"
  /\ IF reader_alive
     THEN /\ teardown' = Append(teardown, "join")
          /\ reader_alive' = ~in_time
          /\ log' = log \cup (IF in_time THEN {} ELSE {"join_timeout"})
     ELSE /\ teardown' = Append(teardown, "already_stopped")
          /\ UNCHANGED <<reader_alive, log>>
  /\ pc' = "finish"
  /\ UNCHANGED <<stop_event, reader_thread_stop_event, exit_status, exit_cause, classify_vars, episode_vars, last_dump_statistics_time, statistics, now, last_get, reader_vars, main_vars, recorder_vars>>

\* sys.exit(0) at the end of the finally block (line 357).
ExitStatus == 0

\* log_statistics, release_logging_handlers, sys.exit(0) (lines 354-357).
CleanupExit ==
  /\ pc = "finish"
  /\ log' = log \cup {"statistics"}
  /\ teardown' = teardown \o <<"log_statistics", "sys_exit">>
  /\ exit_status' = Some(ExitStatus)
  /\ pc' = "exited"
  /\ UNCHANGED <<stop_event, reader_thread_stop_event, reader_alive, exit_cause, classify_vars, episode_vars, last_dump_statistics_time, statistics, now, last_get, reader_vars, main_vars, recorder_vars>>

(* ----------------------------- supervisor ----------------------------- *)

\* The supervisor sets stop_event (main.py line 84).
SetStopEvent ==
  /\ ~stop_event
  /\ stop_event' = TRUE
  /\ UNCHANGED <<pc, reader_thread_stop_event, reader_alive, exit_status, teardown, exit_cause, classify_vars, episode_vars, last_dump_statistics_time, statistics, log, now, last_get, reader_vars, main_vars, recorder_vars>>

\* The supervisor takes the oldest event (main.py lines 64-66).
ConsumeEvent ==
  /\ motion_event_queue # <<>>
  /\ motion_event_queue' = Tail(motion_event_queue)
  /\ UNCHANGED <<process_vars, classify_vars, state, motion_start_time, motion_end_time, max_diff_ratio, snapshot_frame, snapshots, last_put, ep_frames, last_dump_statistics_time, statistics, log, now, last_get, reader_vars, main_vars, recorder_vars>>

Next ==
  \/ \E k \in 0..MaxDiffPixels, dt \in 1..TicksPerSec, write_ok \in BOOLEAN : ProcessFrame(k, dt, write_ok)
  \/ \E write_ok \in BOOLEAN : ReceiveTimeout(write_ok)
  \/ \E dt \in 1..TicksPerSec : FrameHandlingRaises(dt)
  \/ KeyboardInterrupt
  \/ TimeoutHandlerRaises
  \/ LoopExit
  \/ CleanupSignalReader
  \/ ReaderThreadExits
  \/ \E in_time \in BOOLEAN : CleanupJoin(in_time)
  \/ CleanupExit
  \/ SetStopEvent
  \/ ConsumeEvent

Spec == Init /\ [][Next]_vars


(* ------------------------- the loop on a quiet stream ------------------ *)

\* The loop a minute into a quiet run: one frame like the reference was
\* received STATISTICS_INTERVAL_SECONDS ago, which set
\* last_dump_statistics_time (lines 226-227) and was counted (lines 224, 232,
\* 249), and every receive since has timed out (lines 296-302).
InitIdle ==
  /\ pc = "loop"
  /\ stop_event = FALSE
  /\ reader_thread_stop_event = FALSE
  /\ reader_alive = TRUE
  /\ exit_status = None
  /\ base_gray_frame = LoopBase
  /\ gray_frame = Some([shape |-> DetectionShape, px |-> LoopPixels(0)])
  /\ diff_ratio = Some(diff_ratio_between_two_frames(LoopBase, [shape |-> DetectionShape, px |-> LoopPixels(0)]))
  /\ is_like_base_frame = TRUE
  /\ state = "STATIC"
  /\ motion_start_time = None
  /\ motion_end_time = None
  /\ max_diff_ratio = PyFloat(0, 1)
  /\ snapshot_frame = None
  /\ last_dump_statistics_time = Some(0 - STATISTICS_INTERVAL_SECONDS * TicksPerSec)
  /\ statistics = [DetectStatistics EXCEPT !.total_frames = 1, !.check_frames = 1, !.static_frames = 1]
  /\ motion_event_queue = <<>>
  /\ snapshots = <<>>
  /\ log = {}
  /\ now = 0
  /\ teardown = <<>>
  /\ exit_cause = "none"
  /\ last_get = "empty"
  /\ last_put = None
  /\ ep_frames = <<>>
  /\ ReaderNotStarted
  /\ MainStarted
  /\ RecorderStarted

SpecIdle == InitIdle /\ [][Next]_vars


(* ------------------- the classifier on arbitrary images --------------- *)

Shapes == (1..MaxDim) \X (1..MaxDim)

\* The gray images of a shape whose pixels take the given levels.
ImagesOf(shape, levels) == {[shape |-> shape, px |-> p] : p \in [1..(shape[1] * shape[2]) -> levels]}

\* A reference image and a current gray frame of any shapes, then lines
\* 242-246 applied to them.
InitClassify ==
  /\ pc = "classify"
  /\ base_gray_frame \in UNION {ImagesOf(sh, {GrayLevels[1]}) : sh \in Shapes}
  /\ gray_frame \in {Some(img) : img \in UNION {ImagesOf(sh, {GrayLevels[1], GrayLevels[2], GrayLevels[3]}) : sh \in Shapes}}
  /\ stop_event = FALSE
  /\ reader_thread_stop_event = FALSE
  /\ reader_alive = TRUE
  /\ exit_status = None
  /\ diff_ratio = None
  /\ is_like_base_frame = FALSE
  /\ state = "STATIC"
  /\ motion_start_time = None
  /\ motion_end_time = None
  /\ max_diff_ratio = PyFloat(0, 1)
  /\ snapshot_frame = None
  /\ last_dump_statistics_time = None
  /\ statistics = DetectStatistics
  /\ motion_event_queue = <<>>
  /\ snapshots = <<>>
  /\ log = {}
  /\ now = 0
  /\ teardown = <<>>
  /\ exit_cause = "none"
  /\ last_get = "frame"
  /\ last_put = None
  /\ ep_frames = <<>>
  /\ ReaderNotStarted
  /\ MainStarted
  /\ RecorderStarted

\* diff_ratio = diff_ratio_between_two_frames(base_gray_frame, gray_frame, logger)
\* and the classification that follows (lines 242-246).
Classify ==
  /\ pc = "classify"
  /\ diff_ratio' = Some(diff_ratio_between_two_frames(base_gray_frame, gray_frame[1]))
  /\ is_like_base_frame' = IsLikeBaseFrame(diff_ratio_between_two_frames(base_gray_frame, gray_frame[1]))
  /\ log' = log \cup (IF ShapeWarning(base_gray_frame, gray_frame[1]) THEN {"shape_warning"} ELSE {})
  /\ pc' = "classified"
  /\ UNCHANGED <<stop_event, reader_thread_stop_event, reader_alive, exit_status, teardown, exit_cause, base_gray_frame, gray_frame, episode_vars, last_dump_statistics_time, statistics, now, last_get, reader_vars, main_vars, recorder_vars>>

NextClassify == Classify

SpecClassify == InitClassify /\ [][NextClassify]_vars


(* ------------------------- the supervisor (main.py) ------------------- *)

\* detect_process.is_alive()
DetectAlive == pc \notin {"exited", "terminated"}

\* send_html_mail(title, directory, image_name) of notifier/qq_mail/sendmail.py:
\* open(img_path, 'rb') raises when the directory holds no such file (lines
\* 36-39, outside the try); send_qq_mail then returns True or False, and what
\* it raises is caught and turned into False (lines 41-47).
SendHtmlMail(image_name, directory, smtp_ok) == IF image_name \notin DOMAIN directory THEN "raised" ELSE IF smtp_ok THEN "True" ELSE "False"

\* What no step of the supervisor changes but for stop_event and, by its
\* terminate, the detector process.
main_rest == <<reader_thread_stop_event, exit_status, teardown, exit_cause, classify_vars, state, motion_start_time, motion_end_time, max_diff_ratio, snapshot_frame, snapshots, last_put, ep_frames, last_dump_statistics_time, statistics, log, now, last_get, cap_reader, consecutive_read_errors, failed_reads, sleep_time, last_frame_time, sample_rate, reader_frame, frame_queue, captured, delivered, delivered_at, taken, since_stop, recorder_vars>>

\* One round of the supervisor's loop up to its sleep (lines 64-73): the oldest
\* event, if there is one, is taken and handed to send_html_mail; an exception
\* of that call is caught by no clause of the loop and leaves it through
\* "finally" (lines 80-82).
MainLoop(smtp_ok) ==
  /\ main_pc = "loop"
  /\ IF motion_event_queue # <<>>
     THEN LET event == Head(motion_event_queue)
              result == SendHtmlMail(event.snapshot_img, snapshots, smtp_ok)
          IN  /\ motion_event_queue' = Tail(motion_event_queue)
              /\ notified' = Append(notified, [event |-> event, result |-> result])
              /\ main_pc' = IF result = "raised" THEN "finally" ELSE "sleep"
              /\ main_cause' = IF result = "raised" THEN "exception" ELSE main_cause
     ELSE /\ main_pc' = "sleep"
          /\ UNCHANGED <<motion_event_queue, notified, main_cause>>
  /\ UNCHANGED <<main_rest, pc, stop_event, reader_alive, rpc, open_handles>>

\* time.sleep(1) and the check of the detector process (lines 74-79).
MainSleep ==
  /\ main_pc = "sleep"
  /\ main_pc' = IF DetectAlive THEN "loop" ELSE "finally"
  /\ main_cause' = IF DetectAlive THEN main_cause ELSE "not_alive"
  /\ UNCHANGED <<main_rest, pc, stop_event, reader_alive, rpc, open_handles, motion_event_queue, notified>>

\* KeyboardInterrupt in the supervisor's loop (lines 80-81).
MainKeyboardInterrupt ==
  /\ main_pc \in {"loop", "sleep"}
  /\ main_pc' = "finally"
  /\ main_cause' = "keyboard_interrupt"
  /\ UNCHANGED <<main_rest, pc, stop_event, reader_alive, rpc, open_handles, motion_event_queue, notified>>

\* Mutant of MainFinally: the finally block goes to the join without setting
\* stop_event.
MainFinallySkipsStop ==
  /\ main_pc = "finally"
  /\ main_pc' = "join"
  /\ UNCHANGED <<main_rest, pc, stop_event, reader_alive, rpc, open_handles, motion_event_queue, notified, main_cause>>

\* finally: stop_event.set() (lines 82-84).
MainFinally ==
  /\ main_pc = "finally"
  /\ stop_event' = TRUE
  /\ main_pc' = "join"
  /\ UNCHANGED <<main_rest, pc, reader_alive, rpc, open_handles, motion_event_queue, notified, main_cause>>

\* detect_process.join(timeout=10) returns (line 85): the detector process has
\* ended, or the timeout has passed.
MainJoin ==
  /\ main_pc = "join"
  /\ main_pc' = "is_alive"
  /\ UNCHANGED <<main_rest, pc, stop_event, reader_alive, rpc, open_handles, motion_event_queue, notified, main_cause>>

\* Mutant of MainTerminate: a detector found alive is left alone.
MainTerminateSkipped ==
  /\ main_pc = "is_alive"
  /\ main_pc' = IF main_cause = "exception" THEN "raised" ELSE "returned"
  /\ UNCHANGED <<main_rest, pc, stop_event, reader_alive, rpc, open_handles, motion_event_queue, notified, main_cause>>

\* "if detect_process.is_alive(): detect_process.terminate();
\* detect_process.join()" (lines 87-92): the detector process is killed, its
\* threads and handles with it; then main returns, or the exception that left
\* the loop goes on.
MainTerminate ==
  /\ main_pc = "is_alive"
  /\ IF DetectAlive
     THEN /\ pc' = "terminated"
          /\ rpc' = IF rpc = "returned" THEN rpc ELSE "killed"
          /\ reader_alive' = FALSE
          /\ open_handles' = 0
     ELSE UNCHANGED <<pc, rpc, reader_alive, open_handles>>
  /\ main_pc' = IF main_cause = "exception" THEN "raised" ELSE "returned"
  /\ UNCHANGED <<main_rest, stop_event, motion_event_queue, notified, main_cause>>

\* The end of the supervisor: lines 80-92.
MainStops == MainKeyboardInterrupt \/ MainFinally \/ MainJoin \/ MainTerminate

\* The detector's loop and teardown with the supervisor's loop.
NextMain ==
  \/ \E k \in 0..MaxDiffPixels, dt \in 1..TicksPerSec, write_ok \in BOOLEAN : ProcessFrame(k, dt, write_ok)
  \/ \E write_ok \in BOOLEAN : ReceiveTimeout(write_ok)
  \/ \E dt \in 1..TicksPerSec : FrameHandlingRaises(dt)
  \/ KeyboardInterrupt
  \/ TimeoutHandlerRaises
  \/ LoopExit
  \/ CleanupSignalReader
  \/ ReaderThreadExits
  \/ \E in_time \in BOOLEAN : CleanupJoin(in_time)
  \/ CleanupExit
  \/ \E smtp_ok \in BOOLEAN : MainLoop(smtp_ok)
  \/ MainSleep
  \/ MainStops

SpecMain == Init /\ [][NextMain]_vars


(* ------------------------ the frame reader thread --------------------- *)

\* Bounds of the reader's runs: frames the stream yields, and reads in a row
\* that return ret = False.  The reader's own count is back at 0 after every
\* reopen, so that a second failure in a row leaves the reader where the first
\* did.
MaxFrames == 3

MaxReadErrors == 1

\* frame_queue = queue.Queue(maxsize=1)
FrameQueueMaxsize == 1

\* Mutant of SkippedBySampleRate: no frame is skipped.
SkippedNever(time_diff, rate) == FALSE

\* sample_gap = 1.0 / sample_rate if sample_rate > 0 else 0.0, and the test
\* "time_diff < sample_gap" with time_diff in ticks.
SkippedBySampleRate(time_diff, rate) == IF rate > 0 THEN time_diff * rate < TicksPerSec ELSE time_diff < 0

\* sleep_time after a read that returned ret = False (line 62).
ReadErrorSleepTime(errors) == IF errors >= max_consecutive_read_errors THEN RECONNECT_DELAY_SECONDS * 2 ELSE RECONNECT_DELAY_SECONDS \div 2

\* Mutant of Finally: a capture that is not opened is kept.
FinallyKeeps(cap) == cap

\* The finally clause of the loop body (lines 103-107): a capture that is not
\* opened is released and forgotten.
Finally(cap) == IF cap = "unopened" THEN "None" ELSE cap

\* frame_queue.put(frame, timeout=0.5): appends, or raises queue.Full when the
\* queue is still at its capacity.
FramePut(queue, item) == IF Len(queue) < FrameQueueMaxsize THEN [queue |-> Append(queue, item), full |-> FALSE] ELSE [queue |-> queue, full |-> TRUE]

\* since_stop with one more of what the reader does, once the signal is set.
Since(what) == IF reader_thread_stop_event THEN [since_stop EXCEPT ![what] = @ + 1] ELSE since_stop

\* What no step of the reader thread changes.
not_reader_vars == <<pc, stop_event, reader_thread_stop_event, exit_status, teardown, exit_cause, classify_vars, state, motion_start_time, motion_end_time, max_diff_ratio, snapshot_frame, motion_event_queue, snapshots, last_put, ep_frames, last_dump_statistics_time, statistics, last_get, taken, main_vars, recorder_vars>>

\* "while not stop_event_reader.is_set()" (line 41) and the test of line 43.
ReaderWhile ==
  /\ rpc = "while"
  /\ rpc' = IF reader_thread_stop_event THEN "release" ELSE IF cap_reader # "opened" THEN "open" ELSE "read"
  /\ UNCHANGED <<not_reader_vars, reader_alive, log, now, cap_reader, consecutive_read_errors, failed_reads, sleep_time, last_frame_time, sample_rate, reader_frame, frame_queue, captured, delivered, delivered_at, open_handles, since_stop>>

\* cap_reader = cv2.VideoCapture(live_stream_url, cv2.CAP_FFMPEG) (lines 44-52):
\* the stream opens, or the capture comes back not opened, or the call raises
\* (caught at lines 95-102).
ReaderOpen(result) ==
  /\ rpc = "open"
  /\ since_stop' = Since("opens")
  /\ CASE result = "opened" ->
            /\ cap_reader' = "opened"
            /\ open_handles' = open_handles + 1
            /\ consecutive_read_errors' = 0
            /\ rpc' = "read"
            /\ UNCHANGED <<sleep_time, log, failed_reads>>
       [] result = "not_opened" ->
            /\ cap_reader' = "unopened"
            /\ sleep_time' = Some(RECONNECT_DELAY_SECONDS)
            /\ log' = log
            /\ rpc' = "open_wait"
            /\ UNCHANGED <<open_handles, consecutive_read_errors, failed_reads>>
       [] result = "raised" ->
            /\ sleep_time' = Some(RECONNECT_DELAY_SECONDS)
            /\ log' = log
            /\ rpc' = "error_wait"
            /\ UNCHANGED <<cap_reader, open_handles, consecutive_read_errors, failed_reads>>
  /\ UNCHANGED <<not_reader_vars, reader_alive, now, last_frame_time, sample_rate, reader_frame, frame_queue, captured, delivered, delivered_at>>

\* Mutant of StopEventWait: time.sleep(timeout) for stop_event_reader.wait.
StopEventSleep(at) ==
  /\ rpc = at
  /\ rpc' = "while"
  /\ cap_reader' = Finally(cap_reader)
  /\ sleep_time' = None
  /\ UNCHANGED <<not_reader_vars, reader_alive, log, now, consecutive_read_errors, failed_reads, last_frame_time, sample_rate, reader_frame, frame_queue, captured, delivered, delivered_at, open_handles, since_stop>>

\* Mutant of StopEventWait: "break" whatever the wait returns.
StopEventWaitBreaks(at) ==
  /\ rpc = at
  /\ rpc' = "release"
  /\ cap_reader' = Finally(cap_reader)
  /\ sleep_time' = None
  /\ UNCHANGED <<not_reader_vars, reader_alive, log, now, consecutive_read_errors, failed_reads, last_frame_time, sample_rate, reader_frame, frame_queue, captured, delivered, delivered_at, open_handles, since_stop>>

\* "if stop_event_reader.wait(timeout=...): break", else the next round of the
\* loop; either way through the finally clause.  The wait returns True as soon
\* as the signal is set, False when the timeout has passed without it.
StopEventWait(at) ==
  /\ rpc = at
  /\ rpc' = IF reader_thread_stop_event THEN "release" ELSE "while"
  /\ cap_reader' = Finally(cap_reader)
  /\ sleep_time' = None
  /\ UNCHANGED <<not_reader_vars, reader_alive, log, now, consecutive_read_errors, failed_reads, last_frame_time, sample_rate, reader_frame, frame_queue, captured, delivered, delivered_at, open_handles, since_stop>>

\* The wait after a failed open (lines 48-50).
ReaderOpenWait == StopEventWait("open_wait")

\* The wait after a failed read (lines 64-67).
ReaderReadWait == StopEventWait("read_wait")

\* The wait after an exception (lines 95-102).
ReaderErrorWait == StopEventWait("error_wait")

\* Mutant of ReaderRead: last_frame_time starts a second before the first frame.
ReaderReadFirstPasses(result, dt) ==
  /\ rpc = "read"
  /\ now + dt <= MaxTime
  /\ now' = now + dt
  /\ since_stop' = Since("reads")
  /\ CASE result = "frame" ->
            LET current_time == now + dt
                last == IF last_frame_time = None THEN current_time - TicksPerSec ELSE last_frame_time[1]
                skipped == SkippedBySampleRate(current_time - last, sample_rate)
            IN  /\ captured < MaxFrames
                /\ captured' = captured + 1
                /\ reader_frame' = Some(captured + 1)
                /\ consecutive_read_errors' = 0
                /\ failed_reads' = 0
                /\ last_frame_time' = IF skipped THEN Some(last) ELSE Some(current_time)
                /\ rpc' = IF skipped THEN "while" ELSE "clear"
                /\ UNCHANGED <<cap_reader, open_handles, sleep_time, log>>
       [] result = "no_frame" ->
            /\ consecutive_read_errors' = consecutive_read_errors + 1
            /\ failed_reads' = failed_reads + 1
            /\ reader_frame' = None
            /\ cap_reader' = "None"
            /\ open_handles' = open_handles - 1
            /\ sleep_time' = Some(ReadErrorSleepTime(consecutive_read_errors + 1))
            /\ log' = log
            /\ rpc' = "read_wait"
            /\ UNCHANGED <<captured, last_frame_time, sample_rate>>
       [] result = "raised" ->
            /\ sleep_time' = Some(RECONNECT_DELAY_SECONDS)
            /\ log' = log
            /\ rpc' = "error_wait"
            /\ UNCHANGED <<cap_reader, open_handles, consecutive_read_errors, failed_reads, reader_frame, captured, last_frame_time, sample_rate>>
  /\ UNCHANGED <<not_reader_vars, reader_alive, frame_queue, delivered, delivered_at, sample_rate>>

\* ret, frame = cap_reader.read() and what follows it up to the delivery
\* (lines 54-78): dt ticks pass in the read; it returns a frame, which the
\* sample rate lets through or not, or ret = False, or it raises.
ReaderRead(result, dt) ==
  /\ rpc = "read"
  /\ now + dt <= MaxTime
  /\ now' = now + dt
  /\ since_stop' = Since("reads")
  /\ CASE result = "frame" ->
            LET current_time == now + dt
                last == IF last_frame_time = None THEN current_time ELSE last_frame_time[1]
                skipped == SkippedBySampleRate(current_time - last, sample_rate)
            IN  /\ captured < MaxFrames
                /\ captured' = captured + 1
                /\ reader_frame' = Some(captured + 1)
                /\ consecutive_read_errors' = 0
                /\ failed_reads' = 0
                /\ last_frame_time' = IF skipped THEN Some(last) ELSE Some(current_time)
                /\ rpc' = IF skipped THEN "while" ELSE "clear"
                /\ UNCHANGED <<cap_reader, open_handles, sleep_time, log>>
       [] result = "no_frame" ->
            /\ consecutive_read_errors' = consecutive_read_errors + 1
            /\ failed_reads' = failed_reads + 1
            /\ reader_frame' = None
            /\ cap_reader' = "None"
            /\ open_handles' = open_handles - 1
            /\ sleep_time' = Some(ReadErrorSleepTime(consecutive_read_errors + 1))
            /\ log' = log
            /\ rpc' = "read_wait"
            /\ UNCHANGED <<captured, last_frame_time, sample_rate>>
       [] result = "raised" ->
            /\ sleep_time' = Some(RECONNECT_DELAY_SECONDS)
            /\ log' = log
            /\ rpc' = "error_wait"
            /\ UNCHANGED <<cap_reader, open_handles, consecutive_read_errors, failed_reads, reader_frame, captured, last_frame_time, sample_rate>>
  /\ UNCHANGED <<not_reader_vars, reader_alive, frame_queue, delivered, delivered_at, sample_rate>>

\* Mutant of ReaderClear: the waiting frame is not cleared before the put.
ReaderClearSkipped ==
  /\ rpc = "clear"
  /\ rpc' = "put"
  /\ UNCHANGED <<not_reader_vars, reader_alive, log, now, cap_reader, consecutive_read_errors, failed_reads, sleep_time, last_frame_time, sample_rate, reader_frame, frame_queue, captured, delivered, delivered_at, open_handles, since_stop>>

\* "while not frame_queue.empty()" (line 83).
ReaderClear ==
  /\ rpc = "clear"
  /\ rpc' = IF frame_queue = <<>> THEN "put" ELSE "get_nowait"
  /\ UNCHANGED <<not_reader_vars, reader_alive, log, now, cap_reader, consecutive_read_errors, failed_reads, sleep_time, last_frame_time, sample_rate, reader_frame, frame_queue, captured, delivered, delivered_at, open_handles, since_stop>>

\* Mutant of ReaderGetNowait: the waiting frame is looked at and left where it
\* is.
ReaderGetNowaitPeeks ==
  /\ rpc = "get_nowait"
  /\ rpc' = "put"
  /\ UNCHANGED <<not_reader_vars, reader_alive, log, now, cap_reader, consecutive_read_errors, failed_reads, sleep_time, last_frame_time, sample_rate, reader_frame, frame_queue, captured, delivered, delivered_at, open_handles, since_stop>>

\* frame_queue.get_nowait() (lines 84-87): drops the waiting frame, or finds
\* that the detector has just taken it (queue.Empty, break).
ReaderGetNowait ==
  /\ rpc = "get_nowait"
  /\ IF frame_queue # <<>>
     THEN frame_queue' = Tail(frame_queue) /\ rpc' = "clear"
     ELSE frame_queue' = frame_queue /\ rpc' = "put"
  /\ UNCHANGED <<not_reader_vars, reader_alive, log, now, cap_reader, consecutive_read_errors, failed_reads, sleep_time, last_frame_time, sample_rate, reader_frame, captured, delivered, delivered_at, open_handles, since_stop>>

\* frame_queue.put(frame, timeout=0.5) (lines 88-93), then the finally clause.
ReaderPut ==
  /\ rpc = "put"
  /\ LET put == FramePut(frame_queue, reader_frame)
     IN  /\ frame_queue' = put.queue
         /\ delivered' = IF put.full THEN delivered ELSE Some(reader_frame)
         /\ delivered_at' = IF put.full THEN delivered_at ELSE Some(now)
         /\ log' = log \cup (IF put.full THEN {"frame_queue_full"} ELSE {})
  /\ since_stop' = Since("puts")
  /\ cap_reader' = Finally(cap_reader)
  /\ rpc' = "while"
  /\ UNCHANGED <<not_reader_vars, reader_alive, now, consecutive_read_errors, failed_reads, sleep_time, last_frame_time, sample_rate, reader_frame, captured, open_handles>>

\* Mutant of ReaderRelease: release() whether or not a capture is held.
ReaderReleaseAlways ==
  /\ rpc = "release"
  /\ open_handles' = open_handles - 1
  /\ cap_reader' = IF cap_reader = "opened" THEN "unopened" ELSE cap_reader
  /\ log' = log
  /\ reader_alive' = FALSE
  /\ rpc' = "returned"
  /\ UNCHANGED <<not_reader_vars, now, consecutive_read_errors, failed_reads, sleep_time, last_frame_time, sample_rate, reader_frame, frame_queue, captured, delivered, delivered_at, since_stop>>

\* After the loop (lines 109-111): "if cap_reader: cap_reader.release()", and
\* the thread function returns.
ReaderRelease ==
  /\ rpc = "release"
  /\ open_handles' = IF cap_reader = "opened" THEN open_handles - 1 ELSE open_handles
  /\ cap_reader' = IF cap_reader = "opened" THEN "unopened" ELSE cap_reader
  /\ log' = log
  /\ reader_alive' = FALSE
  /\ rpc' = "returned"
  /\ UNCHANGED <<not_reader_vars, now, consecutive_read_errors, failed_reads, sleep_time, last_frame_time, sample_rate, reader_frame, frame_queue, captured, delivered, delivered_at, since_stop>>

\* A step of the reader thread on a stream of which at most max_failed reads
\* in a row return ret = False.
ReaderStepUpTo(max_failed) ==
  \/ ReaderWhile
  \/ \E result \in {"opened", "not_opened", "raised"} : ReaderOpen(result)
  \/ ReaderOpenWait
  \/ \E result \in {"frame", "no_frame", "raised"}, dt \in 0..1 : (result = "no_frame" => failed_reads < max_failed) /\ ReaderRead(result, dt)
  \/ ReaderReadWait
  \/ ReaderErrorWait
  \/ ReaderClear
  \/ ReaderGetNowait
  \/ ReaderPut
  \/ ReaderRelease

\* A step of the reader thread.
ReaderStep == ReaderStepUpTo(MaxReadErrors)

(* ------------------- the detector seen from the handoff --------------- *)

\* What the detector's receive and its teardown of the reader leave alone.
detector_rest == <<main_vars, recorder_vars, classify_vars, state, motion_start_time, motion_end_time, max_diff_ratio, snapshot_frame, motion_event_queue, snapshots, last_put, ep_frames, last_dump_statistics_time, statistics>>

\* Mutant of FrameQueueGet: the frame is read off the queue and left on it.
FrameQueuePeek ==
  /\ pc = "loop"
  /\ ~stop_event
  /\ frame_queue # <<>>
  /\ last_get' = "frame"
  /\ taken' = Append(taken, Head(frame_queue))
  /\ UNCHANGED <<detector_rest, process_vars, log, now, rpc, cap_reader, consecutive_read_errors, failed_reads, sleep_time, last_frame_time, sample_rate, reader_frame, frame_queue, captured, delivered, delivered_at, open_handles, since_stop>>

\* frame = frame_queue.get(timeout=1) returns the waiting frame (line 220); the
\* handling of the frame is the step ProcessFrame.  An item that is no image
\* makes cv2.resize raise, caught by "except Exception" (lines 335-339).
FrameQueueGet ==
  /\ pc = "loop"
  /\ ~stop_event
  /\ frame_queue # <<>>
  /\ frame_queue' = Tail(frame_queue)
  /\ last_get' = "frame"
  /\ IF Head(frame_queue) = None
     THEN /\ pc' = "cleanup"
          /\ stop_event' = TRUE
          /\ exit_cause' = "exception"
          /\ log' = log \cup {"fatal_error"}
          /\ taken' = taken
     ELSE /\ taken' = Append(taken, Head(frame_queue))
          /\ UNCHANGED <<pc, stop_event, exit_cause, log>>
  /\ UNCHANGED <<detector_rest, reader_thread_stop_event, reader_alive, exit_status, teardown, now, rpc, cap_reader, consecutive_read_errors, failed_reads, sleep_time, last_frame_time, sample_rate, reader_frame, captured, delivered, delivered_at, open_handles, since_stop>>

\* frame_queue.get(timeout=1) raises queue.Empty: no frame came within the
\* second (line 296); the handling of the timeout is the step ReceiveTimeout.
FrameQueueGetEmpty ==
  /\ pc = "loop"
  /\ ~stop_event
  /\ frame_queue = <<>>
  /\ last_get' = "empty"
  /\ UNCHANGED <<detector_rest, process_vars, log, now, reader_vars>>

\* "if reader_thread.is_alive()" (lines 347 and 351-352).
CleanupIsAlive ==
  /\ pc = "join"
  /\ IF reader_alive
     THEN pc' = "joining" /\ teardown' = teardown
     ELSE pc' = "finish" /\ teardown' = Append(teardown, "already_stopped")
  /\ UNCHANGED <<detector_rest, stop_event, reader_thread_stop_event, reader_alive, exit_status, exit_cause, log, now, last_get, reader_vars>>

\* reader_thread.join(timeout=5.0) returns (lines 348-350): the reader thread
\* has returned, or the timeout has passed with the thread still alive.
CleanupJoinReturns ==
  /\ pc = "joining"
  /\ teardown' = Append(teardown, "join")
  /\ log' = log \cup (IF reader_alive THEN {"join_timeout"} ELSE {})
  /\ pc' = "finish"
  /\ UNCHANGED <<detector_rest, stop_event, reader_thread_stop_event, reader_alive, exit_status, exit_cause, now, last_get, reader_vars>>

\* log_statistics, release_logging_handlers, sys.exit(0) (lines 354-357): the
\* process ends, and with it the reader thread, a daemon thread (line 210),
\* and every handle the process holds.
CleanupExitProcess ==
  /\ pc = "finish"
  /\ log' = log \cup {"statistics"}
  /\ teardown' = teardown \o <<"log_statistics", "sys_exit">>
  /\ exit_status' = Some(ExitStatus)
  /\ pc' = "exited"
  /\ rpc' = IF rpc = "returned" THEN rpc ELSE "killed"
  /\ reader_alive' = FALSE
  /\ open_handles' = 0
  /\ UNCHANGED <<detector_rest, stop_event, reader_thread_stop_event, exit_cause, now, last_get, cap_reader, consecutive_read_errors, failed_reads, sleep_time, last_frame_time, sample_rate, reader_frame, frame_queue, captured, delivered, delivered_at, taken, since_stop>>

NextReader ==
  \/ ReaderStep
  \/ FrameQueueGet
  \/ FrameQueueGetEmpty
  \/ KeyboardInterrupt
  \/ LoopExit
  \/ CleanupSignalReader
  \/ CleanupIsAlive
  \/ CleanupJoinReturns
  \/ CleanupExitProcess
  \/ SetStopEvent

SpecReader == Init /\ [][NextReader]_vars

\* The reader thread and the detector with the end of the supervisor in the
\* place of SetStopEvent.
NextTeardown ==
  \/ ReaderStep
  \/ FrameQueueGet
  \/ FrameQueueGetEmpty
  \/ KeyboardInterrupt
  \/ LoopExit
  \/ CleanupSignalReader
  \/ CleanupIsAlive
  \/ CleanupJoinReturns
  \/ CleanupExitProcess
  \/ MainStops

SpecTeardown == Init /\ [][NextTeardown]_vars

(* ------------------- the reader on a stream that keeps failing -------- *)

\* Reads in a row that return ret = False in SpecBackoff.
MaxFailedReads == 5

\* The reader thread on a stream of which up to MaxFailedReads reads in a row
\* fail, until the detector, interrupted, tears it down.
NextBackoff ==
  \/ ReaderStepUpTo(MaxFailedReads)
  \/ KeyboardInterrupt
  \/ CleanupSignalReader
  \/ CleanupIsAlive
  \/ CleanupJoinReturns
  \/ CleanupExitProcess

SpecBackoff == Init /\ [][NextBackoff]_vars

(* ------------------- the reader started with any sample rate ---------- *)

\* The values of the parameter sample_rate: none and negative (no throttle),
\* one frame a second, and the detector's DETECTION_FPS.
SampleRates == {0 - 1, 0, 1, DETECTION_FPS}

InitThrottle == \E rate \in SampleRates : DetectorStarted /\ ReaderStartedWith(rate) /\ MainStarted /\ RecorderStarted

SpecThrottle == InitThrottle /\ [][NextReader]_vars

\* The reader thread keeps running: the calls into the stream library return
\* (with a frame, without one, or by raising), the waits and the put are
\* bounded by their timeouts.  Nothing is assumed of the detector.
ReaderFairness == WF_vars(ReaderStep)

FairSpecReader == SpecReader /\ ReaderFairness


(* ------------------------------- claims -------------------------------- *)

\* A step that is one full iteration of the loop which stays in the loop.
Iteration == now' # now /\ pc' = "loop"

\* A step in which the open episode is closed.
ClosesEpisode == state = "MOTION" /\ state' = "STATIC"

\* The step appends exactly one event to the event queue.
PutsOne == /\ Len(motion_event_queue') = Len(motion_event_queue) + 1
           /\ SubSeq(motion_event_queue', 1, Len(motion_event_queue)) = motion_event_queue

\* The event the step appended.
NewEvent == motion_event_queue'[Len(motion_event_queue')]

\* The step puts nothing on the event queue (the supervisor may take an event).
PutsNothing == \/ motion_event_queue' = motion_event_queue
               \/ motion_event_queue # <<>> /\ motion_event_queue' = Tail(motion_event_queue)

\* C1: every step that closes an episode (MOTION -> STATIC) puts exactly one
\* event on the event queue when the queue has room, and that event starts at
\* the second of the first different frame of that very episode; a step that
\* closes no episode puts nothing.  So there is one event per completed
\* episode, none without one, never two, and no event spans two episodes.
C1_OneEventPerEpisode ==
  [][IF ClosesEpisode
     THEN IF Len(motion_event_queue) < EventQueueMaxsize
          THEN PutsOne /\ NewEvent.start_timestamp = StrfTime(ep_frames[1].frame.id)
          ELSE motion_event_queue' = motion_event_queue
     ELSE PutsNothing]_vars

\* C1 witness: two episodes were each completed and each put its event.
C1_Witness ==
  /\ statistics.motion_event_count = 2
  /\ state = "STATIC"
  /\ Len(motion_event_queue) = 1

\* The episode of spec section 3, read off the detector's variables.
Episode == IF state = "MOTION" THEN Some([start |-> motion_start_time[1], best_frame |-> snapshot_frame, best_score |-> max_diff_ratio]) ELSE None

\* The transition table of spec section 4.3: from a state and its episode, on
\* an input ("like", "different" with a frame and its ratio, or "timeout") at
\* time t, the next state, the next episode and the kind of event emitted.
TableRow(cur, episode, input, frame, ratio, t) ==
  CASE cur = "STATIC" /\ input = "like" -> [next |-> "STATIC", episode |-> None, emit |-> "none"]
    [] cur = "STATIC" /\ input = "different" -> [next |-> "MOTION", episode |-> Some([start |-> t, best_frame |-> Some(frame), best_score |-> ratio]), emit |-> "none"]
    [] cur = "MOTION" /\ input = "like" -> [next |-> "STATIC", episode |-> None, emit |-> "MOTION"]
    [] cur = "MOTION" /\ input = "different" /\ PyGt(ratio, episode[1].best_score) -> [next |-> "MOTION", episode |-> Some([start |-> episode[1].start, best_frame |-> Some(frame), best_score |-> ratio]), emit |-> "none"]
    [] cur = "MOTION" /\ input = "different" /\ ~PyGt(ratio, episode[1].best_score) -> [next |-> "MOTION", episode |-> episode, emit |-> "none"]
    [] cur = "MOTION" /\ input = "timeout" -> [next |-> "STATIC", episode |-> None, emit |-> "NO_FRAME"]
    [] cur = "STATIC" /\ input = "timeout" -> [next |-> "STATIC", episode |-> None, emit |-> "none"]

\* The input of the iteration just made, as the table names it.
TableInput == IF last_get = "empty" THEN "timeout" ELSE IF is_like_base_frame THEN "like" ELSE "different"

\* The frame received by the iteration just made.
ReceivedFrame == [id |-> now, shape |-> gray_frame[1].shape, px |-> gray_frame[1].px]

\* The kind of the event the iteration just made handed to the event queue.
EmittedKind == IF last_put = None THEN "none" ELSE last_put[1].event_type

\* C2: every iteration of the loop is the step of the transition table of spec
\* section 4.3 on the same input: same next state, same episode (start, best
\* frame, best score) and same kind of event handed to the event queue.
C2_RefinesTable ==
  [][Iteration =>
       LET row == TableRow(state, Episode, TableInput', IF last_get' = "frame" THEN ReceivedFrame' ELSE None, IF last_get' = "frame" THEN diff_ratio'[1] ELSE None, now')
       IN  /\ state' = row.next
           /\ Episode' = row.episode
           /\ EmittedKind' = row.emit]_vars

\* C2 witness: the row MOTION + timeout was just taken, after the rows
\* STATIC + different and MOTION + different.
C2_Witness ==
  /\ last_get = "empty"
  /\ state = "STATIC"
  /\ last_put # None
  /\ last_put[1].event_type = "NO_FRAME"
  /\ statistics.motion_frames >= 2


\* The earliest of a non-empty sequence of frames with their diff ratios whose
\* ratio no other exceeds.
BestOf(frames) ==
  frames[CHOOSE i \in 1..Len(frames) :
           /\ \A j \in 1..Len(frames) : ~PyGt(frames[j].ratio, frames[i].ratio)
           /\ \A j \in 1..(i - 1) : PyGt(frames[i].ratio, frames[j].ratio)]

\* C3: within an episode max_diff_ratio never decreases, and snapshot_frame is
\* the earliest frame of the episode with the greatest diff ratio, which is
\* max_diff_ratio; the snapshot a close writes is that frame, under the name
\* made of the episode's start.
C3_SnapshotIsMaxFrame ==
  [][/\ state' = "MOTION" =>
          /\ snapshot_frame' = Some(BestOf(ep_frames').frame)
          /\ PyEq(max_diff_ratio', BestOf(ep_frames').ratio)
     /\ (state = "MOTION" /\ state' = "MOTION") => ~PyGt(max_diff_ratio, max_diff_ratio')
     /\ (ClosesEpisode /\ snapshots' # snapshots) =>
          /\ DOMAIN snapshots' = DOMAIN snapshots \cup {SnapshotImgName(motion_start_time[1])}
          /\ snapshots'[SnapshotImgName(motion_start_time[1])] = BestOf(ep_frames).frame
          /\ \A n \in DOMAIN snapshots \ {SnapshotImgName(motion_start_time[1])} : snapshots'[n] = snapshots[n]]_vars

\* C3 witness: an episode was closed whose snapshot is a frame received a
\* second or more after the episode's first frame.
C3_Witness ==
  /\ state = "STATIC"
  /\ last_put # None
  /\ last_put[1].snapshot_img \in DOMAIN snapshots
  /\ StrfTime(snapshots[last_put[1].snapshot_img].id) > last_put[1].start_timestamp

\* An iteration whose receive timed out, and one that received a frame like
\* the reference.
TimeoutIteration == Iteration /\ last_get' = "empty"

LikeIteration == Iteration /\ last_get' = "frame" /\ is_like_base_frame'

\* C4 as claimed: a receive timeout in MOTION puts exactly one NO_FRAME event
\* on the event queue and returns to STATIC; in STATIC a like-base frame or a
\* timeout puts nothing.
C4_TimeoutAlwaysPuts ==
  [][/\ (state = "MOTION" /\ TimeoutIteration) =>
          /\ state' = "STATIC"
          /\ motion_start_time' = None
          /\ PutsOne
          /\ NewEvent.event_type = "NO_FRAME"
     /\ (state = "STATIC" /\ (TimeoutIteration \/ LikeIteration)) =>
          /\ state' = "STATIC"
          /\ motion_event_queue' = motion_event_queue]_vars

\* C4 amended: a receive timeout in MOTION closes the episode and returns to
\* STATIC, and puts exactly one NO_FRAME event on the event queue if the queue
\* has room (else the queue is left as it is); in STATIC a like-base frame or
\* a timeout puts nothing.
C4_TimeoutPutsIfRoom ==
  [][/\ (state = "MOTION" /\ TimeoutIteration) =>
          /\ state' = "STATIC"
          /\ motion_start_time' = None
          /\ IF Len(motion_event_queue) < EventQueueMaxsize
             THEN PutsOne /\ NewEvent.event_type = "NO_FRAME"
             ELSE motion_event_queue' = motion_event_queue
     /\ (state = "STATIC" /\ (TimeoutIteration \/ LikeIteration)) =>
          /\ state' = "STATIC"
          /\ motion_event_queue' = motion_event_queue]_vars

\* C4 witness: a timeout in MOTION has put its NO_FRAME event, and a like-base
\* frame that followed has put nothing.
C4_Witness ==
  /\ state = "STATIC"
  /\ last_get = "frame"
  /\ is_like_base_frame
  /\ statistics.motion_event_count = 1
  /\ Len(motion_event_queue) = 1
  /\ motion_event_queue[1].event_type = "NO_FRAME"

\* C5: a gray frame whose shape differs from the reference's is classified as
\* not like the reference, with a warning logged and nothing raised.
C5_ShapeMismatchIsDifferent ==
  (pc = "classified" /\ base_gray_frame.shape # gray_frame[1].shape) =>
    /\ is_like_base_frame = FALSE
    /\ "shape_warning" \in log
    /\ exit_cause = "none"

\* C6: every queued event that names a snapshot names a file that was written.
C6_NoDanglingSnapshot ==
  \A i \in 1..Len(motion_event_queue) :
    motion_event_queue[i].snapshot_img # EmptyName => motion_event_queue[i].snapshot_img \in DOMAIN snapshots

\* The step attempted a snapshot write that wrote nothing.
WriteFailed == snapshot_frame # None /\ snapshots' = snapshots

\* C7: a close of the episode in which the snapshot write fails or the event
\* queue is full completes the transition to STATIC and leaves the detector in
\* its loop, stop_event unset.
C7_ResourceFaultNotFatal ==
  [][(ClosesEpisode /\ (WriteFailed \/ Len(motion_event_queue) = EventQueueMaxsize)) =>
       /\ pc' = "loop"
       /\ ~stop_event'
       /\ exit_cause' = "none"
       /\ motion_start_time' = None]_vars

\* C7 witness: a first episode was closed by a like-base frame with a failed
\* write, a second by a receive timeout with a failed write and the queue
\* full, and the loop is still running.
C7_Witness ==
  /\ pc = "loop"
  /\ ~stop_event
  /\ state = "STATIC"
  /\ Len(motion_event_queue) = EventQueueMaxsize
  /\ motion_event_queue[Len(motion_event_queue)].event_type = "MOTION"
  /\ last_put # None
  /\ last_put[1].event_type = "NO_FRAME"
  /\ statistics.motion_event_count = EventQueueMaxsize
  /\ snapshots = <<>>

\* C8: the event queue never holds more than its capacity; a close of the
\* episode at capacity leaves the queue and motion_event_count as they are and
\* still ends in STATIC with motion_start_time, snapshot_frame and
\* max_diff_ratio cleared.
C8_FullQueueDropsNewest ==
  [][/\ Len(motion_event_queue') <= EventQueueMaxsize
     /\ (ClosesEpisode /\ Len(motion_event_queue) = EventQueueMaxsize) =>
          /\ motion_event_queue' = motion_event_queue
          /\ statistics'.motion_event_count = statistics.motion_event_count
          /\ state' = "STATIC"
          /\ motion_start_time' = None
          /\ snapshot_frame' = None
          /\ max_diff_ratio' = PyFloat(0, 1)]_vars

\* C8 witness: an episode was closed at capacity and its event dropped.
C8_Witness ==
  /\ state = "STATIC"
  /\ last_put # None
  /\ Len(motion_event_queue) = EventQueueMaxsize
  /\ last_put[1] # motion_event_queue[Len(motion_event_queue)]
  /\ statistics.motion_event_count = EventQueueMaxsize

\* The teardown with the join, and the one that finds the reader stopped.
TeardownJoined == <<"set_reader_stop", "join", "log_statistics", "sys_exit">>

TeardownAlreadyStopped == <<"set_reader_stop", "already_stopped", "log_statistics", "sys_exit">>

\* What C9 says of every exit path but for the join: the reader's stop signal
\* is never set inside the loop, the loop is left for a cause, an exception in
\* frame handling has set stop_event, and the teardown proceeds in order.
C9_Common ==
  /\ reader_thread_stop_event => pc # "loop"
  /\ (pc # "loop") = (exit_cause # "none")
  /\ exit_cause \in {"exception", "keyboard_interrupt", "stop_event"} => stop_event
  /\ pc = "cleanup" => teardown = <<>>
  /\ pc = "join" => teardown = <<"set_reader_stop">> /\ reader_thread_stop_event
  /\ pc = "exited" => reader_thread_stop_event /\ "statistics" \in log /\ exit_status # None

\* C9 as claimed: every exit of the process has set the reader's stop signal,
\* joined the reader thread, logged the statistics and exited, in this order.
C9_TeardownAlwaysJoins ==
  /\ C9_Common
  /\ pc = "finish" => teardown = SubSeq(TeardownJoined, 1, 2)
  /\ pc = "exited" => teardown = TeardownJoined

\* C9 amended: as claimed, but the reader thread is joined (with the timeout)
\* only if it is still alive when the teardown checks it; a reader found
\* stopped is not joined.
C9_TeardownJoinsIfAlive ==
  /\ C9_Common
  /\ pc = "finish" => teardown \in {SubSeq(TeardownJoined, 1, 2), SubSeq(TeardownAlreadyStopped, 1, 2)}
  /\ pc = "exited" => teardown \in {TeardownJoined, TeardownAlreadyStopped}
  /\ (pc \in {"finish", "exited"} /\ teardown[2] = "already_stopped") => ~reader_alive

\* C9 witness: the process has exited after an exception in frame handling,
\* with a join of the reader that timed out.
C9_Witness ==
  /\ pc = "exited"
  /\ exit_cause = "exception"
  /\ teardown = TeardownJoined
  /\ reader_alive
  /\ "join_timeout" \in log

\* C10: a process that left its loop by a fatal fault exits with a non-zero
\* status, the cause logged.
C10_FatalExitsNonZero ==
  (pc = "exited" /\ exit_cause \in {"exception", "handler_exception"}) =>
    /\ exit_status[1] # 0
    /\ "fatal_error" \in log

(* ------------------ the detector under a running scheduler ------------ *)

\* The detector process keeps running: a step of it that stays possible is
\* taken.  The loop's check of stop_event follows a receive bounded by its 1 s
\* timeout and a put bounded by 0.5 s (lines 218-221, 277, 326), the join is
\* bounded by its 5 s timeout (line 349).  Nothing is assumed of the reader
\* thread or of the supervisor.  DetectorLeaves is the step of the detector
\* on its way out, whichever its position allows.
DetectorLeaves == LoopExit \/ CleanupSignalReader \/ (\E in_time \in BOOLEAN : CleanupJoin(in_time)) \/ CleanupExit

DetectorFairness == WF_vars(DetectorLeaves)

FairSpec == Spec /\ DetectorFairness

\* C11: once stop_event is set the detector makes no further iteration of its
\* loop (the iteration in progress when the event is set is the step before),
\* a join that returns with the reader alive is one that timed out, and the
\* detector leaves the loop, completes its teardown and exits, whether or not
\* the reader thread ever returns.  stop_event is never cleared, so "set leads
\* to exited" is "again and again, unset or exited".
C11_StopLeadsToExit ==
  /\ [][(stop_event /\ pc = "loop") => (pc' \in {"loop", "cleanup"} /\ now' = now /\ last_get' = last_get /\ statistics' = statistics /\ state' = state)]_vars
  /\ [][(pc = "join" /\ pc' = "finish" /\ reader_alive') => "join_timeout" \in log']_vars
  /\ [][stop_event => stop_event']_vars
  /\ []<>(~stop_event \/ (pc = "exited" /\ exit_status # None))

\* C11 witness: the supervisor set stop_event, the detector left its loop for
\* it and has exited although the reader thread never returned.
C11_Witness ==
  /\ pc = "exited"
  /\ exit_cause = "stop_event"
  /\ teardown = TeardownJoined
  /\ reader_alive
  /\ now > 0

\* C20: every event handed to the event queue, and every event on it, ends no
\* earlier than it starts.
C20_EndNotBeforeStart ==
  /\ \A i \in 1..Len(motion_event_queue) : motion_event_queue[i].end_timestamp >= motion_event_queue[i].start_timestamp
  /\ last_put # None => last_put[1].end_timestamp >= last_put[1].start_timestamp
  /\ (motion_start_time # None /\ motion_end_time # None) => motion_end_time[1] >= motion_start_time[1]

\* C20 witness: events of both kinds were put, one of them ending a second or
\* more after it started.
C20_Witness ==
  /\ Len(motion_event_queue) = 1
  /\ motion_event_queue[1].event_type = "NO_FRAME"
  /\ motion_event_queue[1].end_timestamp > motion_event_queue[1].start_timestamp
  /\ statistics.motion_event_count = 2



(* ---------------------- the loop on frames in quick succession -------- *)

\* The detector's loop on a stream of at most MaxFrames frames that may follow
\* one another within a tick (DETECTION_FPS frames come in a second).
NextSnapshots ==
  \/ \E k \in 0..MaxDiffPixels, dt \in 0..TicksPerSec, write_ok \in BOOLEAN : statistics.total_frames < MaxFrames /\ ProcessFrame(k, dt, write_ok)
  \/ \E write_ok \in BOOLEAN : ReceiveTimeout(write_ok)
  \/ \E dt \in 1..TicksPerSec : FrameHandlingRaises(dt)
  \/ KeyboardInterrupt
  \/ TimeoutHandlerRaises
  \/ LoopExit
  \/ CleanupSignalReader
  \/ ReaderThreadExits
  \/ \E in_time \in BOOLEAN : CleanupJoin(in_time)
  \/ CleanupExit
  \/ SetStopEvent
  \/ ConsumeEvent

SpecSnapshots == Init /\ [][NextSnapshots]_vars


(* ------------------------ claims on the frame reader ------------------ *)

\* The positions at which the reader waits on its stop signal.
ReaderWaits == {"open_wait", "read_wait", "error_wait"}

\* The reader thread is over: its function has returned, or the process ended.
ReaderOver == rpc \in {"returned", "killed"}

C13_NothingLeftAfterTeardown ==
  /\ [](pc \in {"finish", "exited"} => open_handles = 0)
  /\ [][(pc \in {"finish", "exited"}) => delivered' = delivered]_vars
  /\ [](exit_cause # "exception")

\* C15: while the stop signal is unset the reader thread is alive and in its
\* loop whatever the stream did; after a failure it waits the backoff of that
\* failure and then goes round the loop again; nothing but frames is put on
\* the handoff and the detector meets no exception: it sees frames or
\* receive timeouts.
C15_StreamFaultsStayInReader ==
  /\ [](~reader_thread_stop_event => (reader_alive /\ rpc \notin {"release", "returned", "killed"}))
  /\ [](rpc = "open_wait" => sleep_time = Some(RECONNECT_DELAY_SECONDS))
  /\ [](rpc = "error_wait" => sleep_time = Some(RECONNECT_DELAY_SECONDS))
  /\ [](rpc = "read_wait" => sleep_time \in {Some(RECONNECT_DELAY_SECONDS \div 2), Some(RECONNECT_DELAY_SECONDS * 2)})
  /\ [][(rpc \in ReaderWaits /\ ~reader_thread_stop_event /\ rpc' # rpc) => rpc' = "while"]_vars
  /\ [][(rpc \in {"open", "read"} /\ rpc' \in ReaderWaits) => (frame_queue' = frame_queue /\ pc' = pc /\ stop_event' = stop_event)]_vars
  /\ [](\A i \in 1..Len(frame_queue) : frame_queue[i] # None)
  /\ [](exit_cause \notin {"exception", "handler_exception"} /\ "fatal_error" \notin log)

\* C15 witness: a read has failed after a frame was read, the reader has waited
\* its backoff and is about to open the stream again; the detector, still in
\* its loop, has seen a receive timeout.
C15_Witness ==
  /\ rpc = "open"
  /\ consecutive_read_errors = 1
  /\ captured >= 1
  /\ ~reader_thread_stop_event
  /\ pc = "loop"
  /\ last_get = "empty"

\* C16: the handoff holds at most one frame; when the put of a frame returns
\* the handoff holds that frame and no other, whatever waited there; the put
\* never finds the handoff full, so it never waits.
C16_LatestFrameWins ==
  /\ [](Len(frame_queue) <= 1)
  /\ [][(rpc = "put" /\ rpc' # rpc /\ rpc' # "killed") => (frame_queue' = <<reader_frame>> /\ delivered' = Some(reader_frame))]_vars
  /\ []("frame_queue_full" \notin log)

\* C16 witness: a frame was delivered and not taken, the reader has cleared it
\* and is about to put the next frame.
C16_Witness ==
  /\ rpc = "put"
  /\ frame_queue = <<>>
  /\ taken = <<>>
  /\ delivered # None
  /\ reader_frame # delivered[1]

\* C17: a frame the detector takes is the frame of the reader's last put, and
\* a later frame in capture order than every frame taken before.
C17_TakesNewestInOrder ==
  [][taken' # taken =>
       /\ Len(taken') = Len(taken) + 1
       /\ delivered # None
       /\ taken'[Len(taken')] = delivered[1]
       /\ \A i \in 1..Len(taken) : taken[i][1] < taken'[Len(taken')][1]]_vars

\* C17 witness: the detector has taken two frames, with a frame between them
\* that it never saw.
C17_Witness ==
  /\ Len(taken) = 2
  /\ taken[2][1] > taken[1][1]


(* ------------------------- claims on the shutdown --------------------- *)

C18_EveryEventNotified ==
  (main_pc = "returned" /\ main_cause = "not_alive") =>
    /\ motion_event_queue = <<>>
    /\ Len(notified) = statistics.motion_event_count

\* C19: a call of send_html_mail that does not end in True takes its event off
\* the queue for good and leaves the supervisor in its loop, stop_event as it
\* was.
C19_FailedNotificationOnlyLogged ==
  [][(Len(notified') > Len(notified) /\ notified'[Len(notified')].result # "True") =>
       /\ motion_event_queue' = Tail(motion_event_queue)
       /\ main_pc' = "sleep"
       /\ main_cause' = "none"
       /\ stop_event' = stop_event]_vars


(* --------------------- claims on episodes and counters ---------------- *)

\* C21: between iterations of the loop the state is MOTION exactly when
\* motion_start_time is set; motion_start_time is set only by the step from
\* STATIC to MOTION, to the time of that step's frame, and changed afterwards
\* only by the step from MOTION to STATIC, which clears it; a different frame
\* received in MOTION leaves the state and motion_start_time as they are.
C21_OneOpenEpisode ==
  /\ [](pc = "loop" => ((state = "MOTION") <=> (motion_start_time # None)))
  /\ [][(motion_start_time = None /\ motion_start_time' # None) => (state = "STATIC" /\ state' = "MOTION" /\ motion_start_time' = Some(now') /\ Len(ep_frames') = 1)]_vars
  /\ [][(motion_start_time # None /\ motion_start_time' # motion_start_time) => (state = "MOTION" /\ state' = "STATIC" /\ motion_start_time' = None)]_vars
  /\ [][(state = "MOTION" /\ Iteration /\ last_get' = "frame" /\ ~is_like_base_frame') => (state' = "MOTION" /\ motion_start_time' = motion_start_time /\ Len(ep_frames') = Len(ep_frames) + 1)]_vars

\* C21 witness: a first episode was closed and its event counted; a second one
\* is open, two different frames into it, started before the present frame.
C21_Witness ==
  /\ pc = "loop"
  /\ state = "MOTION"
  /\ statistics.motion_event_count = 1
  /\ Len(ep_frames) = 2
  /\ motion_start_time[1] < now

\* C22: every iteration of the loop, on a frame or on a receive timeout, adds
\* one to total_frames and one to check_frames, and an iteration on a frame
\* adds one to exactly one of motion_frames and static_frames.
C22_EveryTickCounted ==
  [][Iteration =>
       /\ statistics'.total_frames = statistics.total_frames + 1
       /\ statistics'.check_frames = statistics.check_frames + 1
       /\ last_get' = "frame" =>
            \/ statistics'.motion_frames = statistics.motion_frames + 1 /\ statistics'.static_frames = statistics.static_frames
            \/ statistics'.static_frames = statistics.static_frames + 1 /\ statistics'.motion_frames = statistics.motion_frames]_vars

\* C23: while the loop runs, the statistics were logged within the last
\* STATISTICS_INTERVAL_SECONDS.  last_dump_statistics_time is the time of the
\* last log_statistics of the loop, or of the first frame when there was none
\* yet, so no log lies between it and now.
C23_StatisticsEveryMinute ==
  (pc = "loop" /\ last_dump_statistics_time # None) =>
    now - last_dump_statistics_time[1] <= STATISTICS_INTERVAL_SECONDS * TicksPerSec

\* C29: a received frame is classified like the reference exactly when its
\* diff ratio is less than DIFF_RATIO_THREASHOLD; a ratio equal to the
\* threshold is classified different.
C29_StrictlyBelowThreshold ==
  (pc = "loop" /\ last_get = "frame" /\ diff_ratio # None) =>
    (is_like_base_frame <=> PyGt(DIFF_RATIO_THREASHOLD, diff_ratio[1]))

\* C30: the close of an episode writes its snapshot under a name no file of
\* the snapshot directory has yet, and no step changes the file that an event
\* on the event queue names.
C30_SnapshotNeverOverwritten ==
  [][/\ (ClosesEpisode /\ snapshots' # snapshots) => SnapshotImgName(motion_start_time[1]) \notin DOMAIN snapshots
     /\ \A i \in 1..Len(motion_event_queue) :
          motion_event_queue[i].snapshot_img \in DOMAIN snapshots =>
            snapshots'[motion_event_queue[i].snapshot_img] = snapshots[motion_event_queue[i].snapshot_img]]_vars

(* ------------------------ claims on the classifier -------------------- *)

\* The pixels at which two images of one shape differ by more than the cutoff.
PixelsOver(a, b, cutoff) == {i \in 1..(a.shape[1] * a.shape[2]) : a.px[i] - b.px[i] > cutoff \/ b.px[i] - a.px[i] > cutoff}

\* C24: for a reference and a gray frame of one shape,
\* diff_ratio_between_two_frames returns a float, the number of pixels that
\* differ by more than 25 over the number of pixels, between 0 and 1; and 0.0
\* when the frame is the reference itself.
C24_DiffRatioIsShare ==
  (pc = "classified" /\ base_gray_frame.shape = gray_frame[1].shape) =>
    /\ diff_ratio[1].py = "float"
    /\ diff_ratio[1].num = Cardinality(PixelsOver(base_gray_frame, gray_frame[1], 25))
    /\ diff_ratio[1].den = base_gray_frame.shape[1] * base_gray_frame.shape[2]
    /\ diff_ratio[1].num >= 0
    /\ diff_ratio[1].num <= diff_ratio[1].den
    /\ gray_frame[1] = base_gray_frame => PyEq(diff_ratio[1], PyFloat(0, 1))

\* C24 witness: a frame of the reference's shape was classified of whose four
\* pixels one differs by more than the cutoff and one by exactly the cutoff.
C24_Witness ==
  /\ pc = "classified"
  /\ base_gray_frame.shape = gray_frame[1].shape
  /\ diff_ratio[1] = PyFloat(1, 4)
  /\ \E i \in 1..4 : gray_frame[1].px[i] - base_gray_frame.px[i] = THRESH_CUTOFF


(* -------------------- claims on the reader's stream handle ------------ *)

\* C27: the process holds no or one open stream handle, one exactly when
\* cap_reader is an opened capture; in the wait after a failed read the handle
\* is released already; at an open the reader holds no capture, neither an
\* opened one nor one that failed to open, and only an open adds a handle; a
\* reader that has returned has released what it opened.
C27_AtMostOneHandle ==
  /\ [](open_handles \in {0, 1})
  /\ [](rpc # "killed" => ((cap_reader = "opened") <=> (open_handles = 1)))
  /\ [](rpc = "read_wait" => (cap_reader = "None" /\ open_handles = 0))
  /\ [](rpc = "open" => (cap_reader = "None" /\ open_handles = 0))
  /\ [][open_handles' > open_handles => (rpc = "open" /\ open_handles = 0 /\ cap_reader = "None")]_vars
  /\ [](rpc = "returned" => (open_handles = 0 /\ cap_reader # "opened"))

\* C27 witness: the reader opened the stream and read a frame, a later read
\* failed and the handle was released; signalled in the wait that followed,
\* the reader has returned.
C27_Witness ==
  /\ rpc = "returned"
  /\ captured >= 1
  /\ failed_reads = 1
  /\ cap_reader = "None"
  /\ open_handles = 0

\* C25: stop_event and the reader's stop signal, once set, stay set whoever
\* sets them again; with stop_event set by the detector itself and then by the
\* supervisor as with one signal, no step ends in an error, the teardown is
\* made once, in its order, and only a handle that is held is released.
C25_StopTwiceAsOnce ==
  /\ [][stop_event => stop_event']_vars
  /\ [][reader_thread_stop_event => reader_thread_stop_event']_vars
  /\ [](exit_cause \notin {"exception", "handler_exception"} /\ "fatal_error" \notin log /\ main_pc # "raised")
  /\ [](\E full \in {TeardownJoined, TeardownAlreadyStopped} : teardown = SubSeq(full, 1, Len(teardown)))
  /\ [](pc = "exited" => teardown \in {TeardownJoined, TeardownAlreadyStopped})
  /\ [](open_handles \in {0, 1})
  /\ [][open_handles' < open_handles => (open_handles = 1 /\ cap_reader = "opened")]_vars
  /\ [](rpc = "returned" => open_handles = 0)

\* C25 witness: interrupted, the detector set stop_event itself, then the
\* supervisor set it again; the reader released its handle and returned, the
\* detector has exited and the supervisor returned.
C25_Witness ==
  /\ pc = "exited"
  /\ exit_cause = "keyboard_interrupt"
  /\ main_pc = "returned"
  /\ rpc = "returned"
  /\ captured >= 1
  /\ cap_reader = "unopened"
  /\ teardown = TeardownJoined

\* C26: the wait after a failed open is RECONNECT_DELAY_SECONDS; the wait
\* after a failed read is twice that once max_consecutive_read_errors (5) or
\* more reads in a row have failed, and half of it before.
C26_BackoffTiers ==
  /\ rpc = "open_wait" => sleep_time = Some(RECONNECT_DELAY_SECONDS)
  /\ rpc = "read_wait" => sleep_time = Some(IF failed_reads >= max_consecutive_read_errors THEN RECONNECT_DELAY_SECONDS * 2 ELSE RECONNECT_DELAY_SECONDS \div 2)

\* Less than 1/rate seconds, in ticks; never with a rate of 0 or less.
TooSoon(ticks, rate) == rate > 0 /\ ticks * rate < TicksPerSec

\* C28: a frame put on the handoff was read no sooner than 1/sample_rate
\* seconds after the frame put before it; a frame read sooner than that after
\* the last frame put is not on its way to the handoff: the reader is back at
\* the head of its loop, and only the frame that went through the throttle is
\* put; with a sample rate of 0 or less every frame read goes on to the put.
C28_ThrottleGap ==
  /\ [][(delivered' # delivered /\ delivered # None) => ~TooSoon(delivered_at'[1] - delivered_at[1], sample_rate)]_vars
  /\ [][(captured' = captured + 1 /\ delivered_at # None /\ TooSoon(now' - delivered_at[1], sample_rate)) => (rpc' = "while" /\ frame_queue' = frame_queue)]_vars
  /\ [](rpc \in {"clear", "get_nowait", "put"} => (delivered_at = None \/ ~TooSoon(now - delivered_at[1], sample_rate)))
  /\ [][Len(frame_queue') > Len(frame_queue) => (rpc = "put" /\ frame_queue' = Append(frame_queue, reader_frame) /\ delivered_at' = Some(now))]_vars
  /\ [][(captured' = captured + 1 /\ sample_rate <= 0) => rpc' = "clear"]_vars

\* C28 witness: at DETECTION_FPS the second frame was put; the third, read
\* within the same tick, was skipped.
C28_Witness ==
  /\ sample_rate = DETECTION_FPS
  /\ delivered = Some(Some(2))
  /\ reader_frame = Some(3)
  /\ rpc = "while"
  /\ delivered_at = Some(now)

(* ------------------- claims on the episode's best frame --------------- *)

\* C31: whenever the loop is between iterations in STATIC, snapshot_frame is
\* None and max_diff_ratio is 0.0, also after a close whose event was dropped
\* at a full event queue; so the step from STATIC to MOTION takes the frame it
\* received as the best frame and that frame's ratio as the best score.
C31_StaticHoldsNoBest ==
  /\ []((pc = "loop" /\ state = "STATIC") => (snapshot_frame = None /\ max_diff_ratio = PyFloat(0, 1)))
  /\ [][(state = "STATIC" /\ state' = "MOTION") => (snapshot_frame' = Some(ReceivedFrame') /\ max_diff_ratio' = diff_ratio'[1])]_vars

\* C31 witness: an episode with a best frame was closed at a full event queue
\* and its event dropped; the loop is in STATIC with nothing kept of it.
C31_Witness ==
  /\ pc = "loop"
  /\ state = "STATIC"
  /\ last_put # None
  /\ last_put[1].snapshot_img # EmptyName
  /\ Len(motion_event_queue) = EventQueueMaxsize
  /\ motion_event_queue[Len(motion_event_queue)] # last_put[1]
  /\ snapshot_frame = None

(* ------------- the detector's loop and the supervisor's loop ---------- *)

\* The two loops while both processes run: the detector receives frames and
\* timeouts and puts events, the supervisor takes them and calls
\* send_html_mail, until that call raises.
NextNotify ==
  \/ \E k \in 0..MaxDiffPixels, dt \in 1..TicksPerSec, write_ok \in BOOLEAN : ProcessFrame(k, dt, write_ok)
  \/ \E write_ok \in BOOLEAN : ReceiveTimeout(write_ok)
  \/ \E smtp_ok \in BOOLEAN : MainLoop(smtp_ok)
  \/ MainSleep

SpecNotify == Init /\ [][NextNotify]_vars

\* C32: in MOTION snapshot_frame is never None; so every event handed to the
\* event queue, put or dropped, of kind MOTION or NO_FRAME, names a snapshot,
\* and every call of send_html_mail is made with a name that is not empty.
C32_MotionHoldsSnapshot ==
  /\ state = "MOTION" => snapshot_frame # None
  /\ last_put # None => last_put[1].snapshot_img # EmptyName
  /\ \A i \in 1..Len(motion_event_queue) : motion_event_queue[i].snapshot_img # EmptyName
  /\ \A i \in 1..Len(notified) : notified[i].event.snapshot_img # EmptyName

\* C32 witness: the supervisor has notified an event of each kind, the second
\* closed by a receive timeout.
C32_Witness ==
  /\ Len(notified) = 2
  /\ notified[1].event.event_type = "MOTION"
  /\ notified[2].event.event_type = "NO_FRAME"
  /\ notified[2].event.snapshot_img \in DOMAIN snapshots

(* ------------------- claims on the end of the detector ---------------- *)

\* C33: an event is put on the event queue only by a step of the loop that
\* goes from MOTION to STATIC; a step that leaves the loop in MOTION (stop,
\* KeyboardInterrupt, fatal exception) leaves the episode open and puts
\* nothing, and no step after the loop puts an event, counts one or touches
\* the episode.
C33_NoEventForOpenEpisode ==
  /\ [][Len(motion_event_queue') > Len(motion_event_queue) => (pc = "loop" /\ ClosesEpisode /\ PutsOne)]_vars
  /\ [][(pc = "loop" /\ pc' # "loop" /\ state = "MOTION") => (state' = "MOTION" /\ motion_start_time' = motion_start_time /\ motion_event_queue' = motion_event_queue)]_vars
  /\ [][pc # "loop" => (PutsNothing /\ state' = state /\ motion_start_time' = motion_start_time /\ statistics' = statistics)]_vars

\* C33 witness: the detector has exited after a fatal exception with an episode
\* open, and no event was ever put.
C33_Witness ==
  /\ pc = "exited"
  /\ exit_cause = "exception"
  /\ state = "MOTION"
  /\ motion_start_time # None
  /\ statistics.motion_event_count = 0
  /\ motion_event_queue = <<>>

(* ------------------------ claims on the handoff ----------------------- *)

\* C34: with the one reader thread and the one detector loop, the reader is at
\* its put only with the handoff empty, and the branch that logs a full queue
\* is never taken; a frame that went through the throttle stays the reader's
\* frame through the clear and is on the handoff when the put returns, unless
\* the process ends first.
C34_PutNeverFull ==
  /\ [](rpc = "put" => frame_queue = <<>>)
  /\ []("frame_queue_full" \notin log)
  /\ [][(rpc \in {"clear", "get_nowait"} /\ rpc' # "killed") => (rpc' \in {"clear", "get_nowait", "put"} /\ reader_frame' = reader_frame)]_vars
  /\ [][(rpc = "put" /\ rpc' \notin {"put", "killed"}) => (rpc' = "while" /\ ~FramePut(frame_queue, reader_frame).full /\ frame_queue' = <<reader_frame>>)]_vars

\* C34 witness: the detector took the second frame, and the third, put after
\* it, waits on the handoff.
C34_Witness ==
  /\ rpc = "while"
  /\ taken = <<Some(2)>>
  /\ delivered = Some(Some(3))
  /\ frame_queue = <<Some(3)>>
  /\ pc = "loop"

\* C35: with a sample rate above 0 the step that reads the first frame sets
\* last_frame_time to that frame's read time and goes back to the head of the
\* loop, so the first frame is never the reader's frame at the put, on the
\* handoff or taken; last_frame_time moves only when a later frame passes the
\* throttle, a sample gap or more after it; and the first frame put is such a
\* frame.
C35_FirstFrameSkipped ==
  /\ [][(sample_rate > 0 /\ captured = 0 /\ captured' = 1) => (rpc' = "while" /\ last_frame_time' = Some(now') /\ frame_queue' = frame_queue)]_vars
  /\ [](sample_rate > 0 =>
         /\ delivered # Some(Some(1))
         /\ rpc \in {"clear", "get_nowait", "put"} => reader_frame # Some(1)
         /\ \A i \in 1..Len(frame_queue) : frame_queue[i] # Some(1)
         /\ \A i \in 1..Len(taken) : taken[i] # Some(1))
  /\ [][(sample_rate > 0 /\ last_frame_time # None /\ last_frame_time' # last_frame_time) => (rpc = "read" /\ rpc' = "clear" /\ last_frame_time' = Some(now') /\ ~TooSoon(now' - last_frame_time[1], sample_rate))]_vars
  /\ [][(sample_rate > 0 /\ delivered = None /\ delivered' # None) => (captured >= 2 /\ delivered' = Some(reader_frame) /\ delivered_at' = last_frame_time)]_vars

\* C35 witness: at one frame a second the first frame was read at 0, the
\* second within the second after it, and the third, read a second after the
\* first, is the first frame put.
C35_Witness ==
  /\ sample_rate = 1
  /\ delivered = Some(Some(3))
  /\ delivered_at = Some(TicksPerSec)
  /\ taken = <<>>

(* ------------------------ claims on the statistics -------------------- *)

\* C36: whenever the loop is between iterations, total_frames equals
\* check_frames and both equal motion_frames plus static_frames; every step
\* adds to motion_event_count one if it put an event on the event queue and
\* nothing if it did not, a dropped event included; and no step lowers a
\* counter.
C36_CounterIdentities ==
  /\ [](pc = "loop" =>
         /\ statistics.total_frames = statistics.check_frames
         /\ statistics.check_frames = statistics.motion_frames + statistics.static_frames)
  /\ [][statistics'.motion_event_count = statistics.motion_event_count + (IF Len(motion_event_queue') > Len(motion_event_queue) THEN 1 ELSE 0)]_vars
  /\ [][\A c \in DOMAIN statistics : statistics'[c] >= statistics[c]]_vars

\* C36 witness: three frames and a receive timeout into the run, one event
\* was put and counted, and the one of the second episode, closed by the
\* timeout, was dropped and is not counted.
C36_Witness ==
  /\ pc = "loop"
  /\ last_get = "empty"
  /\ last_put # None
  /\ Len(motion_event_queue) = EventQueueMaxsize
  /\ motion_event_queue[Len(motion_event_queue)] # last_put[1]
  /\ statistics.total_frames = 3
  /\ statistics.motion_frames = 2
  /\ statistics.static_frames = 1
  /\ statistics.motion_event_count = 1

(* ------------------- claims on the order of the events ---------------- *)

\* The events put on the event queue so far, in the order of their puts: those
\* the supervisor has taken, then those still queued.
EventsPut == [i \in 1..Len(notified) |-> notified[i].event] \o motion_event_queue

\* C37: of any two events put on the event queue, the one put first ends no
\* later than the other starts.
C37_EpisodesInOrder ==
  \A i \in 1..Len(EventsPut) : \A j \in (i + 1)..Len(EventsPut) :
    EventsPut[i].end_timestamp <= EventsPut[j].start_timestamp

\* C37 witness: two events were put, the second for an episode that started
\* in the second in which the first ended.
C37_Witness ==
  /\ Len(notified) = 1
  /\ Len(motion_event_queue) = 1
  /\ notified[1].event.end_timestamp = motion_event_queue[1].start_timestamp
  /\ motion_event_queue[1].end_timestamp > motion_event_queue[1].start_timestamp

(* ------------------- claims on the end of the supervisor -------------- *)

\* The supervisor with a detector that receives at most MaxFrames frames, is
\* interrupted or stopped, and tears down.
NextSupervisor ==
  \/ \E k \in 0..MaxDiffPixels, dt \in 1..TicksPerSec, write_ok \in BOOLEAN : statistics.total_frames < MaxFrames /\ ProcessFrame(k, dt, write_ok)
  \/ KeyboardInterrupt
  \/ LoopExit
  \/ CleanupSignalReader
  \/ ReaderThreadExits
  \/ \E in_time \in BOOLEAN : CleanupJoin(in_time)
  \/ CleanupExit
  \/ \E smtp_ok \in BOOLEAN : MainLoop(smtp_ok)
  \/ MainSleep
  \/ MainStops

SpecSupervisor == Init /\ [][NextSupervisor]_vars

\* C38: when main() has returned or ended with an exception, stop_event is set
\* and the detector process is not alive; the supervisor's loop goes on to its
\* next round only when it found the detector alive, is never entered again
\* once left, and a detector that is over stays over; the detector is
\* terminated only by the finally block, after stop_event and the join.
C38_MainLeavesNoDetector ==
  /\ [](main_pc \in {"returned", "raised"} => (stop_event /\ ~DetectAlive))
  /\ [][(main_pc = "sleep" /\ main_pc' = "loop") => DetectAlive]_vars
  /\ [][(main_pc = "sleep" /\ main_pc' # main_pc /\ ~DetectAlive) => main_pc' = "finally"]_vars
  /\ [][main_pc \notin {"loop", "sleep"} => main_pc' \notin {"loop", "sleep"}]_vars
  /\ [][~DetectAlive => ~DetectAlive']_vars
  /\ [][(pc # "terminated" /\ pc' = "terminated") => (main_pc = "is_alive" /\ stop_event)]_vars

\* C38 witness: send_html_mail raised out of the supervisor's loop, the
\* detector did not end within the join and was terminated, and main() ends
\* with the exception.
C38_Witness ==
  /\ main_pc = "raised"
  /\ main_cause = "exception"
  /\ pc = "terminated"
  /\ stop_event
  /\ Len(notified) = 1

(* ------------------------ the recorder (capture.py) ------------------- *)

\* The ffmpeg children recording_and_segment_func starts in one run.
MaxChildren == 2

\* What no step of the recorder changes but for stop_event.
not_recorder_vars == <<pc, reader_thread_stop_event, reader_alive, exit_status, teardown, exit_cause, classify_vars, episode_vars, last_dump_statistics_time, statistics, log, now, last_get, reader_vars, main_vars>>

\* A child process that has not ended: poll() returns None.
Alive(child) == child \in {"running", "sigterm"}

\* recorder_process.poll() is None; asked of None it raises AttributeError.
PollIsNone(process) == Alive(ffmpeg[process[1]])

\* "while not stop_event.is_set()" of the outer loop (line 34).
RecWhile ==
  /\ rec_pc = "while"
  /\ rec_pc' = IF stop_event THEN "finally" ELSE "popen"
  /\ UNCHANGED <<not_recorder_vars, stop_event, recorder_process, subprocess_log_threads, ffmpeg, rec_waited, rec_log>>

\* recorder_process = subprocess.Popen(...) and the start of the logging
\* threads (lines 57-64): the child is started and its logging threads with
\* it, or Popen raises and there is no child, or the child is started and the
\* start of the threads raises; with logging threads left over the code
\* raises by itself.  An exception goes to "except Exception" (line 95).
RecPopen(result) ==
  /\ rec_pc = "popen"
  /\ IF result = "popen_raised"
     THEN /\ rec_pc' = "except"
          /\ UNCHANGED <<recorder_process, subprocess_log_threads, ffmpeg>>
     ELSE /\ Len(ffmpeg) < MaxChildren
          /\ ffmpeg' = Append(ffmpeg, "running")
          /\ recorder_process' = Some(Len(ffmpeg) + 1)
          /\ IF subprocess_log_threads = "None" /\ result = "started"
             THEN subprocess_log_threads' = "running" /\ rec_pc' = "monitor"
             ELSE subprocess_log_threads' = subprocess_log_threads /\ rec_pc' = "except"
  /\ UNCHANGED <<not_recorder_vars, stop_event, rec_waited, rec_log>>

\* "while not stop_event.is_set()" of the monitoring loop (line 67).
RecMonitor ==
  /\ rec_pc = "monitor"
  /\ rec_pc' = IF stop_event THEN "after" ELSE "poll"
  /\ UNCHANGED <<not_recorder_vars, stop_event, recorder_process, subprocess_log_threads, ffmpeg, rec_waited, rec_log>>

\* "if recorder_process.poll() is not None" (lines 68-74): the child has
\* ended, its logging threads are joined, the Popen object is forgotten and
\* the monitoring loop is left; else on to the wait.
RecPoll ==
  /\ rec_pc = "poll"
  /\ IF PollIsNone(recorder_process)
     THEN /\ rec_pc' = "wait"
          /\ UNCHANGED <<recorder_process, subprocess_log_threads, rec_log>>
     ELSE /\ rec_pc' = "after"
          /\ recorder_process' = None
          /\ subprocess_log_threads' = "None"
          /\ rec_log' = rec_log \cup {"exited"}
  /\ UNCHANGED <<not_recorder_vars, stop_event, ffmpeg, rec_waited>>

\* stop_event.wait(1) (line 76).
RecWait ==
  /\ rec_pc = "wait"
  /\ rec_pc' = "monitor"
  /\ rec_waited' = IF stop_event THEN None ELSE Some(1)
  /\ UNCHANGED <<not_recorder_vars, stop_event, recorder_process, subprocess_log_threads, ffmpeg, rec_log>>

\* "if stop_event.is_set()" after the monitoring loop (line 78) and the poll
\* of line 80, which raises AttributeError when the Popen object has been
\* forgotten at line 73.
RecAfter ==
  /\ rec_pc = "after"
  /\ rec_pc' = IF ~stop_event THEN "restart"
               ELSE IF recorder_process = None THEN "except"
               ELSE IF PollIsNone(recorder_process) THEN "terminate" ELSE "stop_logs"
  /\ UNCHANGED <<not_recorder_vars, stop_event, recorder_process, subprocess_log_threads, ffmpeg, rec_waited, rec_log>>

\* The child with SIGTERM sent to it (terminate() on a child that has ended
\* does nothing).
Terminated(children, i) == [children EXCEPT ![i] = IF @ = "running" THEN "sigterm" ELSE @]

\* Mutant of WaitOrKill: a child that outlasts the wait is left running.
WaitNoKill(children, i, in_time) == [children EXCEPT ![i] = IF Alive(@) /\ in_time THEN "terminated" ELSE @]

\* recorder_process.wait(timeout=10) and the kill() on its TimeoutExpired
\* (lines 83-87 and 103-107): the child ends within the 10 s, or is killed.
WaitOrKill(children, i, in_time) == [children EXCEPT ![i] = IF Alive(@) THEN (IF in_time THEN "terminated" ELSE "killed") ELSE @]

\* recorder_process.terminate() (line 82).
RecTerminate ==
  /\ rec_pc = "terminate"
  /\ ffmpeg' = Terminated(ffmpeg, recorder_process[1])
  /\ rec_pc' = "wait_child"
  /\ UNCHANGED <<not_recorder_vars, stop_event, recorder_process, subprocess_log_threads, rec_waited, rec_log>>

\* try: recorder_process.wait(timeout=10) except TimeoutExpired: kill()
\* (lines 83-87).
RecWaitChild(in_time) ==
  /\ rec_pc = "wait_child"
  /\ ffmpeg' = WaitOrKill(ffmpeg, recorder_process[1], in_time)
  /\ rec_pc' = "stop_logs"
  /\ UNCHANGED <<not_recorder_vars, stop_event, recorder_process, subprocess_log_threads, rec_waited, rec_log>>

\* stop_subprocess_log_threads, and "break" out of the outer loop (lines 88-90).
RecStopLogs ==
  /\ rec_pc = "stop_logs"
  /\ subprocess_log_threads' = "None"
  /\ rec_pc' = "finally"
  /\ UNCHANGED <<not_recorder_vars, stop_event, recorder_process, ffmpeg, rec_waited, rec_log>>

\* "if not stop_event.is_set(): stop_event.wait(RECONNECT_DELAY_SECONDS)"
\* (lines 92-94), then the next round of the outer loop.
RecRestart ==
  /\ rec_pc = "restart"
  /\ rec_pc' = IF stop_event THEN "while" ELSE "reconnect_wait"
  /\ UNCHANGED <<not_recorder_vars, stop_event, recorder_process, subprocess_log_threads, ffmpeg, rec_waited, rec_log>>

\* stop_event.wait(RECONNECT_DELAY_SECONDS) returns (line 94).
RecReconnectWait ==
  /\ rec_pc = "reconnect_wait"
  /\ rec_pc' = "while"
  /\ rec_waited' = IF stop_event THEN None ELSE Some(RECONNECT_DELAY_SECONDS)
  /\ UNCHANGED <<not_recorder_vars, stop_event, recorder_process, subprocess_log_threads, ffmpeg, rec_log>>

\* "except Exception as e" (lines 95-96).
RecExcept ==
  /\ rec_pc = "except"
  /\ rec_log' = rec_log \cup {"exception"}
  /\ rec_pc' = "finally"
  /\ UNCHANGED <<not_recorder_vars, stop_event, recorder_process, subprocess_log_threads, ffmpeg, rec_waited>>

\* "if recorder_process and recorder_process.poll() is None" (line 100), and
\* the end of the function when there is nothing to terminate (lines 111-112).
RecFinally ==
  /\ rec_pc = "finally"
  /\ rec_pc' = IF recorder_process # None /\ PollIsNone(recorder_process) THEN "finally_terminate" ELSE "returned"
  /\ UNCHANGED <<not_recorder_vars, stop_event, recorder_process, subprocess_log_threads, ffmpeg, rec_waited, rec_log>>

\* recorder_process.terminate() in the finally block (line 102).
RecFinallyTerminate ==
  /\ rec_pc = "finally_terminate"
  /\ ffmpeg' = Terminated(ffmpeg, recorder_process[1])
  /\ rec_pc' = "finally_wait"
  /\ UNCHANGED <<not_recorder_vars, stop_event, recorder_process, subprocess_log_threads, rec_waited, rec_log>>

\* The wait, the kill on TimeoutExpired and the join of the logging threads in
\* the finally block, and the end of the function (lines 103-112).
RecFinallyWait(in_time) ==
  /\ rec_pc = "finally_wait"
  /\ ffmpeg' = WaitOrKill(ffmpeg, recorder_process[1], in_time)
  /\ subprocess_log_threads' = "None"
  /\ rec_pc' = "returned"
  /\ UNCHANGED <<not_recorder_vars, stop_event, recorder_process, rec_waited, rec_log>>

\* An ffmpeg child ends by itself: the stream broke, or it obeyed SIGTERM late.
FfmpegExits(i) ==
  /\ i \in 1..Len(ffmpeg)
  /\ Alive(ffmpeg[i])
  /\ ffmpeg' = [ffmpeg EXCEPT ![i] = "exited"]
  /\ UNCHANGED <<not_recorder_vars, stop_event, rec_pc, recorder_process, subprocess_log_threads, rec_waited, rec_log>>

\* main() of capture.py sets stop_event in its finally block (lines 168-171).
RecorderStop ==
  /\ ~stop_event
  /\ stop_event' = TRUE
  /\ UNCHANGED <<not_recorder_vars, recorder_vars>>

NextRecorder ==
  \/ RecWhile
  \/ \E result \in {"started", "popen_raised", "logging_raised"} : RecPopen(result)
  \/ RecMonitor
  \/ RecPoll
  \/ RecWait
  \/ RecAfter
  \/ RecTerminate
  \/ \E in_time \in BOOLEAN : RecWaitChild(in_time)
  \/ RecStopLogs
  \/ RecRestart
  \/ RecReconnectWait
  \/ RecExcept
  \/ RecFinally
  \/ RecFinallyTerminate
  \/ \E in_time \in BOOLEAN : RecFinallyWait(in_time)
  \/ \E i \in 1..MaxChildren : FfmpegExits(i)
  \/ RecorderStop

SpecRecorder == Init /\ [][NextRecorder]_vars

(* ------------------------ claims on the recorder ---------------------- *)

\* The ffmpeg children that have not ended.
AliveChildren == {i \in 1..Len(ffmpeg) : Alive(ffmpeg[i])}

\* C39: at most one ffmpeg child is alive at a time; a child is started only
\* with no child alive, and a second or later child only after a
\* stop_event.wait(RECONNECT_DELAY_SECONDS) that ran out; a child is killed
\* only after SIGTERM was sent to it; and when the function has returned, which
\* it does only with stop_event set or after an exception, no child is alive,
\* however the children's exits and the setting of stop_event fall between the
\* function's statements.
C39_OneRecorderChild ==
  /\ [](Cardinality(AliveChildren) <= 1)
  /\ [][Len(ffmpeg') > Len(ffmpeg) => (AliveChildren = {} /\ (Len(ffmpeg) >= 1 => rec_waited = Some(RECONNECT_DELAY_SECONDS)))]_vars
  /\ [][\A i \in 1..Len(ffmpeg) : (ffmpeg[i] # "killed" /\ ffmpeg'[i] = "killed") => ffmpeg[i] = "sigterm"]_vars
  /\ [](rec_pc = "returned" => (AliveChildren = {} /\ (stop_event \/ "exception" \in rec_log)))

\* C39 witness: the first child ended by itself and was replaced; stop_event
\* was set, the second child did not obey SIGTERM within the wait and was
\* killed, and the function has returned without an exception.
C39_Witness ==
  /\ rec_pc = "returned"
  /\ stop_event
  /\ ffmpeg = <<"exited", "killed">>
  /\ rec_log = {"exited"}

=============================================================================
